--------------------------- MODULE OperationalMemory ---------------------------
(***************************************************************************)
(* Lessons of the operator: drafts that are promoted or rejected, memories *)
(* with a lineage of versions (operational-memory-store.ts), and the pages *)
(* operational-memory-service.ts gives of them.  Every write is one        *)
(* transaction; between the read a writer bases its change on and the      *)
(* change, and between two pages, anything may happen.                     *)
(*                                                                         *)
(* An id is random, so its order says nothing; the clock may give one time *)
(* to many writes.  A hash is the status and the content it was made from. *)
(***************************************************************************)
EXTENDS Integers, Sequences, FiniteSets

CONSTANTS
  Id,         \* ids of drafts, and of the memories they become
  Content,    \* lessons
  Writer,
  Limit,      \* of a page
  Lists,      \* filters a reader lists drafts by: "all", "draft"
  MaxClock,   \* bound: times of the clock
  MaxVersion  \* bound: versions written

ASSUME OperationalAssumption ==
  /\ Id \subseteq Nat \ {0} /\ IsFiniteSet(Id) /\ IsFiniteSet(Content)
  /\ Limit \in Nat \ {0} /\ Lists \subseteq {"all", "draft"} /\ MaxClock \in Nat \ {0} /\ MaxVersion \in Nat

VARIABLES
  clock,
  drafts,    \* each draft: status, created_at, and the memory it became
  memories,  \* each row: status, content_hash, current_version_id, updated_at
  versions,  \* operational_memory_versions, as written
  seen,      \* the hash each writer last read of a memory
  listing,   \* a reader of listDrafts(), page by page
  recalling  \* a reader of recall(), page by page

operationalVars == <<clock, drafts, memories, versions, seen, listing, recalling>>
storeRows == <<drafts, memories, versions>>

Nil == 0
Hash == {"active"} \X Content \cup {<<"retired", "empty">>}
NoLesson == [status |-> "none", at |-> Nil, memory |-> Nil]
NoMemory == [status |-> "none", hash |-> <<>>, head |-> Nil, at |-> Nil]
NoReader == [status |-> "idle", cursor |-> <<>>, given |-> <<>>, whole |-> {}]

OperationalTypeOK ==
  /\ clock \in 1..MaxClock
  /\ \A d \in Id : /\ drafts[d].status \in {"none", "draft", "promoted", "rejected"}
                   /\ drafts[d].at \in 0..MaxClock /\ drafts[d].memory \in Id \cup {Nil}
  /\ \A m \in Id : /\ memories[m].status \in {"none", "active", "retired"}
                   /\ memories[m].hash \in Hash \cup {<<>>}
                   /\ memories[m].head \in 0..Len(versions) /\ memories[m].at \in 0..MaxClock
  /\ versions \in Seq([of : Id, prev : Nat, hash : Hash, saw : Hash \cup {<<>>}])
  /\ seen \in [Writer -> [of : Id \cup {Nil}, hash : Hash \cup {<<>>}]]
  /\ listing.status \in {"idle", "all", "draft", "over"}
  /\ recalling.status \in {"idle", "reads", "over", "refused"}

OperationalInit ==
  /\ clock = 1
  /\ drafts = [d \in Id |-> NoLesson] /\ memories = [m \in Id |-> NoMemory] /\ versions = <<>>
  /\ seen = [w \in Writer |-> [of |-> Nil, hash |-> <<>>]]
  /\ listing = NoReader /\ recalling = NoReader

-----------------------------------------------------------------------------
(* The store *)

CreateDraft(d) ==
  /\ drafts[d].status = "none"
  /\ drafts' = [drafts EXCEPT ![d] = [status |-> "draft", at |-> clock, memory |-> Nil]]
  /\ UNCHANGED <<clock, memories, versions, seen, listing, recalling>>

\* A version of m, and its row: the new version follows the one that was current.
Writes(m, status, hash, saw) ==
  /\ Len(versions) < MaxVersion
  /\ versions' = Append(versions, [of |-> m, prev |-> memories[m].head, hash |-> hash, saw |-> saw])
  /\ memories' = [memories EXCEPT ![m] =
                    [status |-> status, hash |-> hash, head |-> Len(versions'), at |-> clock]]

\* A draft that was promoted or rejected already answers what it became.
PromoteDraft(d, m, c) ==
  /\ drafts[d].status = "draft" /\ memories[m].status = "none"
  /\ drafts' = [drafts EXCEPT ![d].status = "promoted", ![d].memory = m]
  /\ Writes(m, "active", <<"active", c>>, <<>>)
  /\ UNCHANGED <<clock, seen, listing, recalling>>

RejectDraft(d) ==
  /\ drafts[d].status = "draft" /\ drafts' = [drafts EXCEPT ![d].status = "rejected"]
  /\ UNCHANGED <<clock, memories, versions, seen, listing, recalling>>

\* A writer reads the memory it means to change.
GetMemory(w, m) ==
  /\ memories[m].status # "none" /\ seen' = [seen EXCEPT ![w] = [of |-> m, hash |-> memories[m].hash]]
  /\ UNCHANGED <<clock, storeRows, listing, recalling>>

\* Seeded fault: the change is made to whatever the row has become.
FaultExpected(w) == seen[w].of # Nil

\* The hash the writer expects is the one the row has.
Expected(w) == seen[w].of # Nil /\ memories[seen[w].of].hash = seen[w].hash

\* revise(): also of a memory that is retired, which is active again.
Revise(w, c) ==
  /\ Expected(w) /\ Writes(seen[w].of, "active", <<"active", c>>, seen[w].hash)
  /\ seen' = [seen EXCEPT ![w] = [of |-> Nil, hash |-> <<>>]]
  /\ UNCHANGED <<clock, drafts, listing, recalling>>

Retire(w) ==
  /\ Expected(w) /\ Writes(seen[w].of, "retired", <<"retired", "empty">>, seen[w].hash)
  /\ seen' = [seen EXCEPT ![w] = [of |-> Nil, hash |-> <<>>]]
  /\ UNCHANGED <<clock, drafts, listing, recalling>>

ClockTick ==
  /\ clock < MaxClock /\ clock' = clock + 1
  /\ UNCHANGED <<storeRows, seen, listing, recalling>>

-----------------------------------------------------------------------------
(* Pages *)

\* Newest first, and of one time the greatest id first.
Newer(a, b) == a.at > b.at \/ (a.at = b.at /\ a.id > b.id)
Sorted(set) ==
  [i \in 1..Cardinality(set) |->
     CHOOSE k \in set : Cardinality({j \in set : Newer(j, k)}) = i - 1]

\* Seeded fault: what has the time of the cursor is taken as given.
FaultAfter(keys, cursor) == {k \in keys : cursor = <<>> \/ cursor.createdAt > k.at}

\* The rows a page starts from: those behind its cursor.
After(keys, cursor) ==
  {k \in keys : cursor = <<>> \/ Newer([at |-> cursor.createdAt, id |-> cursor.id], k)}

\* validateCursorTuple(): a cursor has a createdAt and an id.
ValidCursor(cursor) == cursor = <<>> \/ {"createdAt", "id"} \subseteq DOMAIN cursor

Listed(status) ==
  {[at |-> drafts[d].at, id |-> d] : d \in {e \in Id : drafts[e].status \in status}}
Filter(status) == IF status = "all" THEN {"draft", "promoted", "rejected"} ELSE {"draft"}

StartListing(status) ==
  /\ listing.status = "idle"
  /\ listing' = [NoReader EXCEPT !.status = status, !.whole = {k.id : k \in Listed(Filter(status))}]
  /\ UNCHANGED <<clock, storeRows, seen, recalling>>

\* A page has at most Limit drafts, fewer when they are large, and a cursor when
\* there are more.
ListDrafts ==
  /\ listing.status \in {"all", "draft"} /\ ValidCursor(listing.cursor)
  /\ LET found == Sorted(After(Listed(Filter(listing.status)), listing.cursor))
     IN IF found = <<>> THEN listing' = [listing EXCEPT !.status = "over"]
        ELSE \E n \in 1..Limit :
          /\ n <= Len(found)
          /\ listing' = [listing EXCEPT
               !.given = @ \o [i \in 1..n |-> found[i].id],
               !.cursor = [createdAt |-> found[n].at, id |-> found[n].id],
               !.status = IF n < Len(found) THEN @ ELSE "over"]
  /\ UNCHANGED <<clock, storeRows, seen, recalling>>

\* A page of recall() over the active memories; its cursor is a RecallCursor.
Recall ==
  /\ recalling.status \in {"idle", "reads"}
  /\ IF ~ValidCursor(recalling.cursor) THEN recalling' = [recalling EXCEPT !.status = "refused"]
     ELSE LET active == {m \in Id : memories[m].status = "active"}
              found == Sorted(After({[at |-> memories[m].at, id |-> m] : m \in active}, recalling.cursor))
          IN IF found = <<>> THEN recalling' = [recalling EXCEPT !.status = "over"]
             ELSE \E n \in 1..Limit :
               /\ n <= Len(found)
               /\ recalling' = [recalling EXCEPT
                    !.given = @ \o [i \in 1..n |-> found[i].id],
                    !.cursor = [updatedAt |-> found[n].at, id |-> found[n].id, scopeRank |-> 5],
                    !.status = IF n < Len(found) THEN "reads" ELSE "over"]
  /\ UNCHANGED <<clock, storeRows, seen, listing>>

OperationalNext ==
  \/ \E d \in Id : CreateDraft(d) \/ RejectDraft(d)
  \/ \E d, m \in Id : \E c \in Content : PromoteDraft(d, m, c)
  \/ \E w \in Writer : \/ \E m \in Id : GetMemory(w, m)
                       \/ \E c \in Content : Revise(w, c)
                       \/ Retire(w)
  \/ \E status \in Lists : StartListing(status)
  \/ ListDrafts \/ Recall \/ ClockTick

OperationalSpec == OperationalInit /\ [][OperationalNext]_operationalVars

-----------------------------------------------------------------------------
(* What must hold.                                                         *)

\* No update is lost: the versions of a memory are one line that ends in its row,
\* each follows the one before it, and whoever wrote it had seen what that said
\* (its hash: a content that came back is the same to him).
NothingOverwritten ==
  \A v \in DOMAIN versions :
    LET version == versions[v]
        next == {u \in DOMAIN versions : versions[u].prev = v}
        row == memories[version.of]
    IN /\ Cardinality(next) = (IF row.head = v THEN 0 ELSE 1)
       /\ \A u \in next : versions[u].of = version.of /\ versions[u].saw = version.hash
       /\ row.head = v => row.hash = version.hash

\* A reader of the pages is given nothing twice and, when the pages end, every draft
\* that was listed from its first page to its last.
PagedOnce ==
  /\ \A i, j \in DOMAIN listing.given : listing.given[i] = listing.given[j] => i = j
  /\ listing.status = "over" =>
       \A d \in listing.whole : drafts[d].status = "draft" => \E i \in DOMAIN listing.given : listing.given[i] = d
=============================================================================
