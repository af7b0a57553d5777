--------------------------- MODULE SandboxListing ---------------------------
(***************************************************************************)
(* Sandbox.list and its paginator (sandbox/listing.ts,                     *)
(* sandbox/paginator.ts) of the TypeScript SDK: pages of the AWS API are   *)
(* walked, filtered, perhaps ordered, and served a few at a time; the      *)
(* listing can be continued in another process from nextToken, while       *)
(* sandboxes come and go and the probe of a sandbox's metadata may fail.   *)
(*                                                                         *)
(* The fields of listing: mode; limit; exists, the sandboxes the service   *)
(* lists now; matches, the ones the filters keep; stable, those that       *)
(* existed all along (history); walk, the PageWalk; dead, its generator    *)
(* threw; sorted, what is left of the OrderedWalk; batch, the page being   *)
(* gathered; served; hasNext and token, the paginator's; pc; resumes;       *)
(* shaken, what happened that the tokens do not survive (history).         *)
(***************************************************************************)
EXTENDS Naturals, Sequences, FiniteSets, SequencesExt

VARIABLE listing

Listed == 1..4
ListPageSize == 2
End == 9                          \* no further page
NoKey == 0
LeastThere == 3                   \* bound on the sandboxes that go away
MaxResumes == 1                   \* bound on continued listings

FirstPage == [token |-> 0, consumed |-> {}, key |-> NoKey]
WalkFrom(cursor) ==
    [token |-> cursor.token, consumed |-> cursor.consumed, buffer |-> <<>>,
     loaded |-> FALSE, next |-> End]

ListingInit ==
    listing = [mode |-> "none", limit |-> 1, exists |-> {}, matches |-> {}, stable |-> {},
               walk |-> WalkFrom(FirstPage), dead |-> FALSE, sorted |-> <<>>, batch |-> <<>>,
               served |-> <<>>, hasNext |-> TRUE, token |-> FirstPage, pc |-> "none", resumes |-> 0,
               shaken |-> {}]

paginate ==
    /\ listing.mode = "none"
    /\ \E mode \in {"stream", "asc", "desc"}, limit \in 1..2, there \in {Listed},
          kept \in {Listed, {1, 4}} :
         listing' = [listing EXCEPT !.mode = mode, !.limit = limit, !.exists = there,
                        !.matches = kept, !.stable = there, !.pc = "ready"]

-----------------------------------------------------------------------------
(* The service: sandboxes in the order of their ids, tokens by position.   *)

After(token) == SetToSortSeq({i \in listing.exists : i > token}, LAMBDA a, b : a < b)
FirstOf(s, n) == SubSeq(s, 1, IF Len(s) < n THEN Len(s) ELSE n)
ServicePage(token) == FirstOf(After(token), ListPageSize)
ServiceNext(token) ==
    IF Len(After(token)) > ListPageSize THEN After(token)[ListPageSize] ELSE End

sandboxGoes ==
    /\ listing.pc # "none" /\ Cardinality(listing.exists) > LeastThere
    /\ \E i \in listing.exists :
         listing' = [listing EXCEPT !.exists = @ \ {i}, !.stable = @ \ {i}]
sandboxAppears ==
    /\ listing.pc \in {"ready", "gathering"} /\ "grew" \notin listing.shaken
    /\ \E i \in Listed \ listing.exists :
         listing' = [listing EXCEPT !.exists = @ \union {i}, !.shaken = @ \union {"grew"}]

-----------------------------------------------------------------------------
(* PageWalk.                                                               *)

hasMore(w) == w.buffer # <<>> \/ ~w.loaded \/ w.next # End

\* The page to fetch, if any: the first one, or the next when the buffer is
\* used up.
pageToFetch(w) ==
    IF w.loaded THEN [token |-> w.next, consumed |-> {}, buffer |-> <<>>, loaded |-> FALSE, next |-> End]
    ELSE w
mustFetch(w) == w.buffer = <<>> /\ (~w.loaded \/ w.next # End)

acceptPage(w) ==
    [w EXCEPT !.buffer = SelectSeq(ServicePage(w.token), LAMBDA i : i \notin w.consumed),
              !.next = ServiceNext(w.token), !.loaded = TRUE]

nextRaw(w) == [w EXCEPT !.buffer = Tail(@), !.consumed = @ \union {Head(w.buffer)}]

cursor(w) == [token |-> w.token, consumed |-> w.consumed, key |-> NoKey]

-----------------------------------------------------------------------------
(* matchingItems and the paginator.                                        *)

\* After an error an ordered listing starts again; a streamed one goes on
\* with the generator that threw, which is over.
nextItems ==
    /\ listing.pc \in {"ready", "failed"} /\ listing.hasNext
    /\ LET again == listing.pc = "failed"
           fresh == again /\ listing.mode # "stream"
       IN  listing' = [listing EXCEPT
              !.pc = IF listing.mode = "stream" \/ fresh \/ ~listing.walk.loaded
                     THEN "gathering" ELSE "taking",
              !.batch = <<>>,
              !.walk = IF fresh THEN WalkFrom(listing.token) ELSE @,
              !.dead = @ /\ ~fresh,
              !.shaken = IF again /\ ~fresh THEN @ \union {"retried"} ELSE @]

fetchPage ==
    /\ listing.pc = "gathering" /\ ~listing.dead /\ mustFetch(listing.walk)
    /\ \/ listing' = [listing EXCEPT !.walk = acceptPage(pageToFetch(@))]
       \/ listing' = [listing EXCEPT !.walk = pageToFetch(@), !.dead = TRUE, !.pc = "failed"]

BatchFull == listing.mode = "stream" /\ Len(listing.batch) >= listing.limit

\* One raw item: dropped by the filters, kept, or its metadata could not be
\* read, which ends the generator with the batch.
matching ==
    /\ listing.pc = "gathering" /\ ~listing.dead /\ ~BatchFull /\ listing.walk.buffer # <<>>
    /\ LET item == Head(listing.walk.buffer) IN
       \/ listing' = [listing EXCEPT
             !.walk = nextRaw(@),
             !.batch = IF item \in listing.matches THEN Append(@, item) ELSE @]
       \/ /\ item \in listing.matches
          /\ listing' = [listing EXCEPT !.walk = nextRaw(@), !.dead = TRUE, !.pc = "failed"]

Settled(l, more, cur) ==
    [l EXCEPT !.pc = "ready", !.batch = <<>>, !.hasNext = more, !.token = cur,
              !.served = @ \o l.batch]

\* #nextStreamed: the batch is full or the generator is over.
nextStreamed ==
    /\ listing.pc = "gathering" /\ listing.mode = "stream"
    /\ BatchFull \/ listing.dead \/ (listing.walk.buffer = <<>> /\ ~mustFetch(listing.walk))
    /\ listing' = Settled(listing, hasMore(listing.walk), cursor(listing.walk))

\* An ordered listing reads everything first, then serves what comes after
\* the token's key (OrderedWalk).
Before(a, b) == IF listing.mode = "asc" THEN a < b ELSE a > b
collectAll ==
    /\ listing.pc = "gathering" /\ listing.mode # "stream"
    /\ listing.walk.buffer = <<>> /\ ~mustFetch(listing.walk)
    /\ listing' = [listing EXCEPT
          !.pc = "taking", !.batch = <<>>,
          !.sorted = SetToSortSeq({i \in ToSet(listing.batch) :
                        listing.token.key = NoKey \/ Before(listing.token.key, i)}, Before)]

nextOrdered ==
    /\ listing.pc = "taking"
    /\ LET taken == FirstOf(listing.sorted, listing.limit)
           n == Len(taken)
           key == IF n = 0 THEN listing.token.key ELSE taken[n]
       IN  listing' = Settled([listing EXCEPT !.batch = taken, !.sorted = SubSeq(@, n + 1, Len(@))],
                              Len(listing.sorted) > n, [FirstPage EXCEPT !.key = key])

\* Another process continues from nextToken; so does a caller after an
\* error, with the token it had.
resumeCursors ==
    /\ listing.pc \in {"ready", "failed"} /\ listing.hasNext
    /\ listing.walk # WalkFrom(listing.token) /\ listing.resumes < MaxResumes
    /\ listing' = [listing EXCEPT !.walk = WalkFrom(listing.token), !.dead = FALSE, !.resumes = @ + 1, !.sorted = <<>>,
                                  !.batch = <<>>, !.pc = "ready"]

ListingSteps == nextItems \/ fetchPage \/ matching \/ nextStreamed \/ collectAll \/ nextOrdered
\* The caller keeps asking and the calls are answered.
ListingFairness == WF_listing(ListingSteps /\ listing'.pc # "failed")
ListingNext == paginate \/ ListingSteps \/ resumeCursors \/ sandboxGoes \/ sandboxAppears

-----------------------------------------------------------------------------
\* No sandbox is served twice in one listing, also when it is continued from
\* its token, while sandboxes disappear; one that appears may shift a page
\* whose consumed part the token remembers.
NoneTwice == IsInjective(listing.served) \/ "grew" \in listing.shaken

\* When the paginator says there is no more, every sandbox that existed all
\* along and matches was served, in order for an ordered listing.  The
\* exception: calling nextItems again on a paginator that threw, whose
\* generator is over, loses the batch and what follows.
NoneMissed ==
    /\ (~listing.hasNext /\ listing.shaken = {}) =>
          (listing.stable \intersect listing.matches) \subseteq ToSet(listing.served)
    /\ listing.mode \in {"asc", "desc"} /\ listing.shaken = {} =>
          \A a, b \in DOMAIN listing.served : a < b => Before(listing.served[a], listing.served[b])

\* A token that nextItems hands out is one that decodeNextToken takes: it
\* remembers at most a page of consumed sandboxes.  The exception: one of
\* those is gone, and the service filled its page with later ones.
TokenAccepted ==
    Cardinality(listing.token.consumed) > ListPageSize
        => \/ listing.token.consumed \ listing.exists # {}
           \/ "grew" \in listing.shaken

\* A caller that stops meeting errors reaches the end of the listing.  The
\* exception: nextItems again on a streamed paginator that threw answers
\* empty pages, with hasNext, for ever.
ListingEnds ==
    <>[](listing.pc \notin {"failed", "none"}) => <>(~listing.hasNext \/ "retried" \in listing.shaken)
=============================================================================
