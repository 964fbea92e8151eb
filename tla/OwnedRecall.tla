----------------------------- MODULE OwnedRecall -----------------------------
(* Recall of personal memory, page by page: the stages of the pipeline over one *)
(* serving generation (owned-pipeline.ts), what is selected, rechecked and      *)
(* rendered (owned-recall.ts), and the handles under which a lookup continues   *)
(* (owned-continuation.ts).  Memories change, are forgotten and are indexed     *)
(* anew between any two steps of a recall.                                      *)
EXTENDS Integers, FiniteSets, SequencesExt

CONSTANTS Doc,         \* memories; the smaller ranks and was made before the greater
          Summary,     \* those that are summary files, which full recall alone reads
          ExceptionOf, \* of each durable memory the exceptions scoped to it
          RivalOf,     \* and what the owner said or decided in the same scope
          Items,       \* maxItems
          MaxRead,     \* the LIMIT of the exceptions, and of the rivals, read of a memory
          MaxExtras,   \* the most of them that are added to a recall
          MaxRefs,     \* OWNED_CONTINUATION_MAX_REFS
          MaxLookups,  \* OWNED_CONTINUATION_MAX_LOOKUPS
          MaxPages,    \* OWNED_CONTINUATION_MAX_PAGES
          MaxHandle, MaxChange  \* bounds: handles issued, changes of memory

RecallAssumption ==
  /\ Doc \subseteq Nat \ {0} /\ IsFiniteSet(Doc) /\ Summary \subseteq Doc
  /\ {ExceptionOf, RivalOf} \subseteq [Doc \ Summary -> SUBSET (Doc \ Summary)]
  /\ {Items, MaxRead, MaxExtras, MaxRefs, MaxLookups, MaxPages} \subseteq Nat \ {0}
  /\ {MaxHandle, MaxChange} \subseteq Nat

VARIABLES
  source,      \* the revision of each memory, 0 when it is forgotten
  generation,  \* servingGeneration(); its documents follow the memories
  changes,
  lookups,     \* the retained lookups, oldest first
  handles,     \* how many handles were issued
  call,        \* the recall under way
  packet       \* the packet just sent with what its lookup had rendered before

vars == <<source, generation, changes, lookups, handles, call, packet>>

Profile == {"normal", "full"}
Stage == {"idle", "lexical", "semantic", "signature", "fusion", "summaries", "select", "publish"}

\* ownedRefKey: a memory at a revision.
Key == Doc \X Nat

Idle == [stage |-> "idle", profile |-> "full", gen |-> 0, prior |-> <<>>, escalates |-> FALSE,
         found |-> {}, weak |-> {}, gated |-> {}, required |-> {}, chosen |-> {}, rendered |-> {}]

NoPacket == [keys |-> {}, before |-> {}, escalates |-> FALSE]

TypeOK ==
  /\ source \in [Doc -> Nat]
  /\ generation \in Nat /\ changes \in 0..MaxChange /\ handles \in 0..MaxHandle
  /\ \A i \in DOMAIN lookups :
       lookups[i] \in [handle : 1..MaxHandle, profile : Profile, gen : Nat, prior : Seq(Key),
                       page : 0..MaxPages, rendered : SUBSET Key]
  /\ call \in [stage : Stage, profile : Profile, gen : Nat, prior : Seq(Key),
               escalates : BOOLEAN, found : SUBSET Key, weak : SUBSET Key, gated : SUBSET Key,
               required : SUBSET Key, chosen : SUBSET Key, rendered : SUBSET Key]
  /\ packet \in [keys : SUBSET Key, before : SUBSET Key, escalates : BOOLEAN]

Init ==
  /\ source = [d \in Doc |-> 1]
  /\ generation = 1 /\ changes = 0 /\ lookups = <<>> /\ handles = 0
  /\ call = Idle /\ packet = NoPacket

-----------------------------------------------------------------------------
(* The request *)

\* Seeded fault: a lookup is continued without end.
FaultContinues(l, profile) ==
  /\ l.gen = generation
  /\ l.profile = profile \/ (l.profile = "normal" /\ profile = "full")

\* resumeContinuation(): a lookup continues in the same generation, in the same
\* profile or from normal to full.
Continues(l, profile) ==
  /\ l.gen = generation
  /\ l.profile = profile \/ (l.profile = "normal" /\ profile = "full")
  /\ l.page + 1 <= MaxPages

\* The generation a recall starts in is the one it reads to its end.
Opened(profile, prior, escalates, rendered) ==
  [Idle EXCEPT !.stage = "lexical", !.profile = profile, !.gen = generation, !.prior = prior,
               !.escalates = escalates, !.rendered = rendered]

\* A first page, or a handle that is expired or bound to another question.
Ask(profile) ==
  /\ call.stage = "idle"
  /\ call' = Opened(profile, <<>>, FALSE, {}) /\ packet' = NoPacket
  /\ UNCHANGED <<source, generation, changes, lookups, handles>>

Resume(i, profile) ==
  LET l == lookups[i] IN
  /\ call.stage = "idle"
  /\ Continues(l, profile)
  /\ lookups' = [lookups EXCEPT ![i].page = @ + 1]
  /\ call' = Opened(profile, l.prior, l.profile # profile, l.rendered) /\ packet' = NoPacket
  /\ UNCHANGED <<source, generation, changes, handles>>

-----------------------------------------------------------------------------
(* The stages of runOwnedPipeline(), each of which may fail *)

Current(S) == {<<d, source[d]>> : d \in {d \in S : source[d] > 0}}

\* The documents of the generation; those of one no longer served are gone.
Indexed(c) == IF c.gen = generation THEN Current(Doc \ Summary) ELSE {}

Stages(from, to) ==
  /\ call.stage = from
  /\ UNCHANGED <<source, generation, changes, lookups, handles, packet>>

Finds(S, to) == call' = [call EXCEPT !.stage = to, !.found = @ \cup S]

Lexical ==
  /\ Stages("lexical", "semantic")
  /\ \E S \in SUBSET Indexed(call) : Finds(S, "semantic")

\* The query's embedding is awaited; without it the stage finds nothing.
Semantic ==
  /\ Stages("semantic", "signature")
  /\ \E S \in SUBSET (Indexed(call) \ call.found) : Finds(S, "signature")

\* The anchor gate: what a signature alone finds is weaker evidence, which full
\* recall keeps and normal recall shuts out.
Signature ==
  /\ Stages("signature", "fusion")
  /\ \E S \in SUBSET (Indexed(call) \ call.found) :
       call' = IF call.profile = "full" THEN [call EXCEPT !.stage = "fusion", !.weak = S]
               ELSE [call EXCEPT !.stage = "fusion", !.gated = S]

\* Anchored evidence before weaker evidence, then by rank.
Before(c, j, k) ==
  LET class(x) == IF x \in c.found THEN 0 ELSE 1 IN
  \/ class(j) < class(k)
  \/ class(j) = class(k) /\ (j[1] < k[1] \/ (j[1] = k[1] /\ j[2] < k[2]))

Leading(c, S, n) == {k \in S : Cardinality({j \in S : Before(c, j, k)}) < n}

\* pass1: the durable memories that lead before anything is required.
Leaders(c) == Leading(c, c.found \cup (c.weak \ (Summary \X Nat)), Items)

FirstOf(s, n) == SubSeq(s, 1, IF Len(s) < n THEN Len(s) ELSE n)

\* A query of memories reads no more than MaxRead rows.
Read(S) == FirstOf(SetToSortSeq(Current(S), LAMBDA j, k : j[1] < k[1]), MaxRead)

\* Seeded fault: only those the search itself has found.
FaultRequired(c) == Current(UNION {RivalOf[k[1]] : k \in Leaders(c)}) \cap c.found

\* The exceptions and rivals of the leaders as they are now: they come from the
\* memories, not from the documents.  When MaxExtras were added that no stage had
\* among its candidates, nothing more is looked at.
Required(c) ==
  LET leaders == SetToSortSeq(Leaders(c), LAMBDA j, k : Before(c, j, k))
      read == FlattenSeq([i \in DOMAIN leaders |->
                            Read(ExceptionOf[leaders[i][1]]) \o Read(RivalOf[leaders[i][1]])])
      added == {i \in DOMAIN read : read[i] \notin c.found \cup c.weak \cup c.gated} IN
  {read[i] : i \in {i \in DOMAIN read : Cardinality({j \in added : j < i}) < MaxExtras}}

\* Relationships, the fusion of the stages and what it requires.
Fusion ==
  /\ Stages("fusion", "summaries")
  /\ call' = [call EXCEPT !.stage = "summaries", !.required = Required(call)]

\* Full recall reads summary files, and waits for them.
Summaries ==
  /\ Stages("summaries", "select")
  /\ \E S \in SUBSET (IF call.profile = "full" THEN Current(Summary) ELSE {}) :
       call' = [call EXCEPT !.stage = "select", !.weak = @ \cup S]

-----------------------------------------------------------------------------
(* Selection *)

\* resolveReserveItems(): what a full recall that continues a normal one keeps, in
\* the order in which it was rendered.  Neither summaries nor relationships are kept.
Reserved(c) == IF c.escalates THEN SelectSeq(c.prior, LAMBDA k : k \in Indexed(c)) ELSE <<>>

Half(n) == IF n <= 2 THEN 1 ELSE (n + 1) \div 2

\* What the anchor gate shut out stays out, required or not.
Selection(c) ==
  LET kept == FirstOf(Reserved(c), Items)
      room == Items - Len(kept)
      pool == ((c.found \cup c.weak \cup c.required) \ c.gated) \ Range(c.prior)
      required == Leading(c, pool \cap c.required, Half(room))
      filled == Leading(c, pool \ required, room - Cardinality(required)) IN
  IF room = 0 THEN Range(kept) ELSE Range(kept) \cup required \cup filled

\* enrichSelected(): what the generation has no document of is left out.
Enriched(c, S) == {k \in S : k[1] \in Summary \/ k \in Indexed(c)}

Select ==
  /\ Stages("select", "publish")
  /\ call' = [call EXCEPT !.stage = "publish", !.found = {}, !.weak = {}, !.gated = {},
                           !.required = {}, !.chosen = Enriched(call, Selection(call))]

\* checkPoint(): the deadline, or the caller's abort.
Cancel ==
  /\ call.stage # "idle"
  /\ call' = Idle
  /\ UNCHANGED <<source, generation, changes, lookups, handles, packet>>

-----------------------------------------------------------------------------
(* Publication *)

\* recheckItemForPublication(): a changed source is omitted, never substituted; a
\* summary file is only looked at for being there.
Servable(S) == {k \in S : IF k[1] \in Summary THEN source[k[1]] > 0 ELSE source[k[1]] = k[2]}

\* renderOwnedText(): what does not fit is skipped.
Fitting(S) == {S} \cup {S \ {k} : k \in S}

\* The cap of the packet takes items from the end of what was rendered.
Capped(c, S) == {Leading(c, S, n) : n \in 0..Cardinality(S)}

\* The refs of the lookup's pages, the oldest dropped.
Accumulated(c, S) ==
  LET fresh == SetToSortSeq(S \ Range(c.prior), LAMBDA j, k : Before(c, j, k))
      all == c.prior \o fresh IN
  SubSeq(all, (IF Len(all) > MaxRefs THEN Len(all) - MaxRefs ELSE 0) + 1, Len(all))

\* issueContinuation(): a new handle for every page, bound to the generation the
\* recall began in, and room for so many lookups.
Issued(c, S) ==
  LET all == Append(lookups, [handle |-> handles + 1, profile |-> c.profile,
                              gen |-> c.gen, prior |-> Accumulated(c, S), page |-> 0,
                              rendered |-> c.rendered \cup S]) IN
  SubSeq(all, (IF Len(all) > MaxLookups THEN Len(all) - MaxLookups ELSE 0) + 1, Len(all))

\* The handle is issued for what was rendered, before the packet is cut to its cap.
Publish ==
  /\ call.stage = "publish"
  /\ \E S \in Fitting(Servable(call.chosen)) :
       /\ IF S = {} THEN UNCHANGED <<handles, lookups>>
          ELSE handles < MaxHandle /\ handles' = handles + 1 /\ lookups' = Issued(call, S)
       /\ \E sent \in Capped(call, S) :
            packet' = [keys |-> sent, before |-> call.rendered, escalates |-> call.escalates]
  /\ call' = Idle
  /\ UNCHANGED <<source, generation, changes>>

-----------------------------------------------------------------------------
(* Meanwhile *)

Changes ==
  /\ changes < MaxChange /\ changes' = changes + 1
  /\ UNCHANGED <<lookups, handles, call, packet>>

\* A revision and its document are one transaction.
Revise(d) ==
  /\ Changes /\ source[d] > 0
  /\ source' = [source EXCEPT ![d] = @ + 1]
  /\ UNCHANGED generation

\* A forget takes the memory out of the serving generation too.
Forget(d) ==
  /\ Changes /\ source[d] > 0
  /\ source' = [source EXCEPT ![d] = 0]
  /\ UNCHANGED generation

\* A build is promoted, and the generation before it is deleted.
Rebuild ==
  /\ Changes
  /\ generation' = generation + 1
  /\ UNCHANGED source

\* OWNED_CONTINUATION_TTL_MS is over for the oldest lookups.
Expire(i) ==
  /\ lookups' = SubSeq(lookups, i + 1, Len(lookups))
  /\ UNCHANGED <<source, generation, changes, handles, call, packet>>

Restart ==
  /\ lookups # <<>>
  /\ lookups' = <<>> /\ call' = Idle
  /\ UNCHANGED <<source, generation, changes, handles, packet>>

Next ==
  \/ \E p \in Profile : Ask(p) \/ \E i \in DOMAIN lookups : Resume(i, p)
  \/ Lexical \/ Semantic \/ Signature \/ Fusion \/ Summaries \/ Select \/ Cancel \/ Publish
  \/ \E d \in Doc : Revise(d) \/ Forget(d)
  \/ Rebuild \/ (\E i \in DOMAIN lookups : Expire(i)) \/ Restart

Spec == Init /\ [][Next]_vars

-----------------------------------------------------------------------------
(* Properties *)

\* "so a later page can never repeat an earlier one" (owned-recall.ts:362-363) is true
\* of the refs a handle retains, and no further: what a lookup has rendered, sent
\* or cut from its packet, is not shown again as long as it is no more than
\* MaxRefs (the code retains 128), save where full recall continues a normal one
\* and leads with what it had.
RetainedApart ==
  Cardinality(packet.before) <= MaxRefs =>
    packet.escalates \/ packet.keys \cap packet.before = {}

Disputes(d) == ({"exception"} \X ExceptionOf[d]) \cup ({"rival"} \X RivalOf[d])

\* A dispute of d that a query of its own kind may read.
ReadOf(d, x) == Cardinality({y \in Disputes(d) : y[1] = x[1] /\ y[2] < x[2]}) < MaxRead

\* "so a resolved belief never hides them" (owned-pipeline.ts:727), as far as the
\* code goes: on the first page of a lookup a leading memory comes with an
\* exception or rival of it, unless that was forgotten or revised since, half the
\* page goes to others required, or one of the caps the comment does not name
\* leaves it out: MaxRead rows of a kind, MaxExtras in all, and the anchor gate.
ShowsRivals(c, chosen) ==
  LET disputed == UNION {{k[1]} \X Disputes(k[1]) : k \in Leaders(c)} IN
  \A k \in chosen \cap Leaders(c) : \A x \in Disputes(k[1]) :
    \/ Current({x[2]}) \subseteq chosen \cup c.gated
    \/ \E j \in c.required : j[1] = x[2] /\ j \notin Current({x[2]})
    \/ Cardinality({j \in c.required : j[1] # x[2]}) >= Half(Items)
    \/ ~ReadOf(k[1], x)
    \/ Cardinality({y \in disputed : y[2][2] # x[2] /\ Current({y[2][2]}) \cap c.found = {}})
         >= MaxExtras

\* It is the selection that decides.
PublishesRivals ==
  call.stage = "select" /\ call'.stage = "publish" /\ call.prior = <<>>
    => ShowsRivals(call, call'.chosen)
=============================================================================
