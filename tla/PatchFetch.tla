----------------------------- MODULE PatchFetch ------------------------------
(***************************************************************************)
(* How a worker reads the files of a pull request from GitHub: page by     *)
(* page, each request with a token of the GitHub App that is taken from a  *)
(* cache as long as it has time left.  Between two requests the clock      *)
(* moves and the pull request may be pushed to.  The cache belongs to the  *)
(* service object, which is made for one task: it is empty at the start.   *)
(*                                                                         *)
(* A definition whose comment begins with "Slip" is not part of Next: it   *)
(* is its neighbour with a plausible mistake, and some property below      *)
(* fails when it takes its neighbour's place.                              *)
(***************************************************************************)
EXTENDS Naturals, Sequences, SequencesExt

CONSTANTS
    Files,      \* the files that may be part of the pull request
    Textual,    \* those that come with a patch
    Contents,   \* the lists of files the pull request may start with
    PageSize,   \* files on a page (100 in the code)
    Life,       \* how long GitHub honours a token
    Margin,     \* how long a cached token must still be good for (1 minute)
    Delay,      \* how long a request may take to reach GitHub (its timeouts)
    None,
    MaxClock,   \* bound: the clock
    MaxPushes   \* bound: changes to the pull request

\* GitHub lists a file of a pull request once.
ASSUME FilesAssumption ==
    /\ Textual \subseteq Files
    /\ Contents \subseteq Seq(Files)
    /\ \A list \in Contents :
          \A i, j \in DOMAIN list : list[i] = list[j] => i = j
ASSUME PageAssumption == PageSize \in Nat \ {0}
ASSUME TimeAssumption ==
    /\ {Life, Margin, Delay, MaxClock, MaxPushes} \subseteq Nat
    /\ Delay < Life
    /\ Delay <= Margin

VARIABLES
    app,       \* whether the job came with an installation id
    clock,
    content,   \* the files of the pull request, in GitHub's order
    at,        \* where the fetch stands
    page,      \* the page it is at
    files,     \* the files it has read
    result,    \* the files that make the patch bundle
    cache,     \* the token the service holds
    sent,      \* the token of the request that is on its way, and since when
    stayed,    \* history: files that have been there since the fetch began
    removals,  \* history: files that a push has taken out since
    additions  \* history: files that a push has put in since

github == <<content, stayed, removals, additions>>
vars == <<app, clock, github, at, page, files, result, cache, sent>>

Tokens == [expires : Nat, dated : BOOLEAN]

Init ==
    /\ app \in BOOLEAN
    /\ clock = 0
    /\ content \in Contents
    /\ at = "page"
    /\ page = 1
    /\ files = <<>>
    /\ result = <<>>
    /\ cache = None
    /\ sent = [token |-> None, since |-> 0]
    /\ stayed = Range(content)
    /\ removals = 0
    /\ additions = 0

----------------------------------------------------------------------------
(* The token. *)

\* Slip: a token is used up to the moment it expires.
FreshToTheEnd(token) == token.dated => token.expires > clock

\* A token without a date is taken to be good for ever.
Fresh(token) == token.dated => token.expires > clock + Margin

Send(token) ==
    /\ at' = "sent"
    /\ sent' = [token |-> token, since |-> clock]
    /\ UNCHANGED <<app, clock, github, page, files, result>>

UseCached ==
    /\ app /\ at = "page"
    /\ cache # None
    /\ Fresh(cache)
    /\ Send(cache)
    /\ UNCHANGED cache

\* The answer may lack expires_at.
RequestToken(dated) ==
    LET token == [expires |-> clock + Life, dated |-> dated] IN
    /\ app /\ at = "page"
    /\ cache # None => ~Fresh(cache)
    /\ Send(token)
    /\ cache' = token

\* Without an installation id the request carries the token of the settings,
\* which this service does not date, or none.
SendWithoutApp ==
    /\ ~app /\ at = "page"
    /\ Send(None)
    /\ UNCHANGED cache

Fail ==
    /\ at' = "failed"
    /\ UNCHANGED <<app, clock, github, page, files, result, cache, sent>>

TokenRefused ==
    /\ app /\ at = "page"
    /\ cache # None => ~Fresh(cache)
    /\ Fail

----------------------------------------------------------------------------
(* The page. *)

\* GitHub's side: the files on page n at this moment.
Page(n) ==
    LET last == IF n * PageSize < Len(content) THEN n * PageSize ELSE Len(content)
    IN  SubSeq(content, (n - 1) * PageSize + 1, last)

Honoured == sent.token # None => clock < sent.token.expires

\* The files that come with a patch.
Patches(read) ==
    LET kept[n \in 0 .. Len(read)] ==
          IF n = 0 THEN <<>>
          ELSE IF read[n] \in Textual THEN Append(kept[n - 1], read[n])
          ELSE kept[n - 1]
    IN  kept[Len(read)]

\* Slip: a file without a patch gets a section like any other.
BundleUnfiltered(read) ==
    /\ result' = read
    /\ at' = IF read = <<>> THEN "failed" ELSE "done"
    /\ UNCHANGED page

\* What is made of the files once the loop ends: no patch is an error.
Bundle(read) ==
    /\ result' = Patches(read)
    /\ at' = IF Patches(read) = <<>> THEN "failed" ELSE "done"
    /\ UNCHANGED page

\* Slip: the counter is not advanced.
NextPageStuck ==
    /\ at' = "page"
    /\ UNCHANGED <<page, result>>

NextPage ==
    /\ page' = page + 1
    /\ at' = "page"
    /\ UNCHANGED result

\* Slip: a full page is taken to be the last one.
ReadPageOnce ==
    /\ at = "sent"
    /\ Honoured
    /\ files' = files \o Page(page)
    /\ Bundle(files')
    /\ UNCHANGED <<app, clock, github, cache, sent>>

\* An empty or short page is the last one.
ReadPage ==
    /\ at = "sent"
    /\ Honoured
    /\ files' = files \o Page(page)
    /\ IF Len(Page(page)) < PageSize THEN Bundle(files') ELSE NextPage
    /\ UNCHANGED <<app, clock, github, cache, sent>>

\* GitHub refuses, an expired token in any case.
PageRefused ==
    /\ at = "sent"
    /\ Fail

----------------------------------------------------------------------------
(* The surroundings. *)

Tick ==
    /\ clock < MaxClock
    /\ at = "sent" => clock < sent.since + Delay
    /\ clock' = clock + 1
    /\ UNCHANGED <<app, github, at, page, files, result, cache, sent>>

PushBound == removals + additions < MaxPushes /\ at \in {"page", "sent"}

TakeOut(i) ==
    /\ PushBound
    /\ content' = RemoveAt(content, i)
    /\ stayed' = stayed \ {content[i]}
    /\ removals' = removals + 1
    /\ UNCHANGED <<app, clock, at, page, files, result, cache, sent, additions>>

\* A file comes in before position i, or at the end.
PutIn(f, i) ==
    /\ PushBound
    /\ f \notin Range(content) \cup Range(files)
    /\ content' = InsertAt(content, i, f)
    /\ additions' = additions + 1
    /\ UNCHANGED <<app, clock, at, page, files, result, cache, sent, stayed, removals>>

Fetch ==
    \/ UseCached
    \/ \E dated \in BOOLEAN : RequestToken(dated)
    \/ SendWithoutApp
    \/ TokenRefused
    \/ ReadPage
    \/ PageRefused

Next ==
    \/ Fetch
    \/ Tick
    \/ \E i \in DOMAIN content : TakeOut(i)
    \/ \E f \in Files, i \in 1 .. Len(content) + 1 : PutIn(f, i)

Spec == Init /\ [][Next]_vars

----------------------------------------------------------------------------
(* Properties. *)

TypeOK ==
    /\ app \in BOOLEAN
    /\ clock \in Nat
    /\ content \in Seq(Files)
    /\ at \in {"page", "sent", "done", "failed"}
    /\ page \in Nat \ {0}
    /\ files \in Seq(Files)
    /\ result \in Seq(Textual)
    /\ cache \in Tokens \cup {None}
    /\ sent \in [token : Tokens \cup {None}, since : Nat]
    /\ stayed \subseteq Files
    /\ removals \in Nat
    /\ additions \in Nat

\* A token that says when it expires is still good when the request reaches
\* GitHub, also on the last of many slow pages.
TokenOutlivesRequest ==
    at = "sent" /\ sent.token # None =>
        (sent.token.dated => clock < sent.token.expires)

\* The bundle has the files of a list that come with a patch, and no others,
\* one after another as they come in the list.
Bundles(bundle, list) ==
    /\ Range(bundle) = Range(list) \cap Textual
    /\ \A k, l \in DOMAIN bundle :
          k < l => \E i, j \in DOMAIN list :
                      i < j /\ list[i] = bundle[k] /\ list[j] = bundle[l]

\* Of a pull request that does not change meanwhile, every patch is fetched
\* once and in order, whether or not the last page is full.
QuietFetchIsExact ==
    at = "done" /\ removals + additions = 0 => Bundles(result, content)

Twice(f) == Cardinality({i \in DOMAIN files : files[i] = f}) > 1

\* While it changes, each file that is taken out hides at most one of those
\* that stay, and each that is put in shows at most one of them twice.
SlipsAreBounded ==
    /\ at = "done" => Cardinality(stayed \ Range(files)) <= removals
    /\ Cardinality({f \in stayed : Twice(f)}) <= additions
=============================================================================
