--------------------------- MODULE RetentionGate ---------------------------
(***************************************************************************)
(* The online retention gate of LifeSim and the store behind it            *)
(* (src/scripts/lifesim/systems.py GatedMemory, _Store, BM25Index;         *)
(* src/scripts/lifesim/interface.py LifeMemory.ingest and reset).          *)
(*                                                                         *)
(* The gate admits every record of a batch, evicts the records of least    *)
(* weight until the words it keeps fit Num/Den of the words it has seen,   *)
(* and only at the end of the batch passes the outcome on to the inner     *)
(* store.  The order of eviction is in a heap that is never searched: a    *)
(* weight that grows is pushed once more, and what the heap gives back is  *)
(* compared with the current weight of its record.                         *)
(***************************************************************************)
EXTENDS Integers, Sequences, FiniteSets

CONSTANTS
  Ids,       \* record ids
  NoRecord,  \* an id that is not kept
  Tokens,    \* what norm and split make of texts
  Sizes,     \* words in one record, as count_units splits its text at blanks
  Lengths,   \* tokens in one record, as BM25 splits its normalised text
  Weights,   \* the weights a policy may give at write time
  Draws,     \* the random draws that break ties
  Times,     \* timestamps
  Policies,  \* see PolicyKinds
  Num, Den,  \* the ratio R of words kept
  RareCap,   \* a token is rare in at most this many lines; 3 up to 399 lines
  MaxSeen,   \* bound: records that arrive after a reset
  MaxBatch   \* bound: records in one batch

(* "fixed": any policy whose weight is settled at write time (GU, GO, GA,   *)
(* GH, GTN, GN, GS); what the weight is made of is not modelled.            *)
PolicyKinds == {"ALL", "fixed", "GR", "GM"}

ASSUME GateAssumption ==
  /\ Sizes \subseteq Nat /\ Lengths \subseteq Nat /\ Weights \subseteq Nat
  /\ Draws \subseteq Nat /\ Times \subseteq Nat
  /\ Policies \subseteq PolicyKinds
  /\ Num \in Nat /\ Den \in Nat /\ 0 < Num /\ Num <= Den
  /\ RareCap \in Nat /\ MaxSeen \in Nat /\ MaxBatch \in Nat

(* What _store, _words, _toks and _cur hold for one id.  A text has two     *)
(* measures: its words and, norm making blanks of its punctuation, its      *)
(* tokens.  "don't" is one word and two tokens, "--" a word and none.       *)
Entry == [words : Nat, length : Nat, tokens : SUBSET Tokens, weight : Nat, tb : Nat, seq : Nat]

(* What the dict of the inner store holds for one id.  A dict keeps its keys*)
(* in the order of insertion; place says when the key was put there.        *)
Slot == [length : Nat, tokens : SUBSET Tokens, seq : Nat, place : Nat]
ASSUME NoRecordAssumption == NoRecord \notin Entry /\ NoRecord \notin Slot

VARIABLES
  policy,  \* fixed by the constructor
  pc,      \* "idle", "loop" over a batch, "evict" in its inner loop, "deliver"
  last,    \* _last_ts
  seen,    \* _seen_words
  stored,  \* _stored_words
  seq,     \* _seq; _lines_seen is the same number
  kept,    \* id -> its entry, or NoRecord
  heap,    \* the set of heap items
  df,      \* GM: in how many lines each token was seen
  post,    \* GM: the kept lines that have each token
  batch,   \* the records of the call, up to the present one
  fresh,   \* in_batch
  gone,    \* removed_old
  inner,   \* the store behind the gate; see Empty
  largest, \* history: words of the largest record seen
  failed,  \* history: a call raised in the middle of a batch
  twice    \* history: an id came back in the batch that had rejected it

gateVars == <<last, seen, stored, seq, kept, heap, df, post, largest>>
callVars == <<batch, fresh, gone>>
vars == <<policy, pc, gateVars, callVars, inner, failed, twice>>

Item == [weight : Nat, tb : Nat, seq : Nat, id : Ids]
Line == [id : Ids, length : Nat, tokens : SUBSET Tokens, seq : Nat]

Kept == {id \in Ids : kept[id] # NoRecord}

(* recs is the dict of the records, places how many keys were put into it;  *)
(* postings and total are those of the BM25 index over the same records.    *)
Empty ==
  [recs |-> [id \in Ids |-> NoRecord], places |-> 0, postings |-> [t \in Tokens |-> {}], total |-> 0]

Held(recs) == {id \in Ids : recs[id] # NoRecord}

(* What some records have by one of the measures, "words" or "length", one  *)
(* by one: their sum is the number of these.                                *)
Units(recs, measure, ids) == UNION {{id} \X (1 .. recs[id][measure]) : id \in ids}

(* A posting names kept lines only: _gm_bump looks up the weight of each.    *)
(* What the inner store holds is the subject of InnerMirrors.               *)
TypeOK ==
  /\ policy \in Policies
  /\ pc \in {"idle", "loop", "evict", "deliver"}
  /\ last \in Nat /\ seen \in Nat /\ stored \in Int /\ seq \in Nat /\ largest \in Nat
  /\ kept \in [Ids -> Entry \cup {NoRecord}]
  /\ heap \subseteq Item
  /\ df \in [Tokens -> Nat]
  /\ post \in [Tokens -> SUBSET Kept]
  /\ batch \in Seq(Line)
  /\ fresh \subseteq Ids /\ gone \subseteq Ids
  /\ failed \in BOOLEAN /\ twice \in BOOLEAN

Init ==
  /\ policy \in Policies
  /\ pc = "idle"
  /\ last = 0 /\ seen = 0 /\ stored = 0 /\ seq = 0 /\ largest = 0
  /\ kept = [id \in Ids |-> NoRecord]
  /\ heap = {}
  /\ df = [t \in Tokens |-> 0]
  /\ post = [t \in Tokens |-> {}]
  /\ batch = <<>> /\ fresh = {} /\ gone = {}
  /\ inner = Empty
  /\ failed = FALSE /\ twice = FALSE

-----------------------------------------------------------------------------
(* Admission: the head of the loop of _ingest                               *)

(* heapq compares (weight, tb, seq, id); items of equal seq have one id.    *)
Before(x, y) ==
  \/ x.weight < y.weight
  \/ x.weight = y.weight /\ x.tb < y.tb
  \/ x.weight = y.weight /\ x.tb = y.tb /\ x.seq < y.seq

ItemOf(id, e) == [weight |-> e.weight, tb |-> e.tb, seq |-> e.seq, id |-> id]

(* _gm_bump, before the line itself is counted: the kept lines that share a *)
(* rare token with it.                                                      *)
Bumped(tokens) ==
  IF policy = "GM" THEN UNION {post[t] : t \in {u \in tokens : df[u] \in 1 .. RareCap}} ELSE {}

Raised(id) == [kept[id] EXCEPT !.weight = @ + 1]

(* _weight, and the tie break of the policy.                                *)
WeightOf(w, ts) == IF policy = "GR" THEN ts ELSE IF policy = "fixed" THEN w ELSE 0
TieOf(draw) == IF policy = "GR" THEN seq ELSE draw

Start ==
  /\ pc = "idle"
  /\ pc' = "loop"
  /\ UNCHANGED <<policy, gateVars, callVars, inner, failed, twice>>

(* heappush of the new record, and of every record whose weight grew.       *)
Push(id, e, bumped) == {ItemOf(id, e)} \cup {ItemOf(b, Raised(b)) : b \in bumped}

(* Mutant: the time order of the records is not looked at.                  *)
AnyTime(ts) == TRUE

(* The distinct tokens of a text, and how many tokens it has.               *)
TextOf(tokens, length) == Cardinality(tokens) <= length /\ (tokens = {} => length = 0)

(* LifeMemory.ingest refuses a batch that goes back in time before the gate *)
(* sees any of it.                                                          *)
InOrder(ts) == ts >= last

Admit(id, words, length, ts, tokens, w, draw) ==
  /\ pc = "loop"
  /\ seq < MaxSeen
  /\ Len(batch) < MaxBatch
  /\ InOrder(ts)
  /\ id \notin Kept \cup fresh
  /\ TextOf(tokens, length)
  /\ LET e == [words |-> words, length |-> length, tokens |-> tokens,
               weight |-> WeightOf(w, ts), tb |-> TieOf(draw), seq |-> seq]
         bumped == Bumped(tokens)
     IN  /\ kept' = [k \in Ids |-> IF k = id THEN e ELSE IF k \in bumped THEN Raised(k) ELSE kept[k]]
         /\ heap' = heap \cup Push(id, e, bumped)
  /\ df' = [t \in Tokens |-> df[t] + (IF policy = "GM" /\ t \in tokens THEN 1 ELSE 0)]
  /\ post' = [t \in Tokens |-> post[t] \cup (IF policy = "GM" /\ t \in tokens THEN {id} ELSE {})]
  /\ last' = ts
  /\ seen' = seen + words
  /\ stored' = stored + words
  /\ seq' = seq + 1
  /\ largest' = IF words > largest THEN words ELSE largest
  /\ twice' = (twice \/ \E i \in DOMAIN batch : batch[i].id = id)
  /\ batch' = Append(batch, [id |-> id, length |-> length, tokens |-> tokens, seq |-> seq])
  /\ fresh' = fresh \cup {id}
  /\ pc' = IF policy = "ALL" THEN "loop" ELSE "evict"
  /\ UNCHANGED <<policy, gone, inner, failed>>

(* "duplicate record id": the call ends where it is.  The gate keeps what it*)
(* has done; the inner store is not told.  The times of the whole batch were*)
(* looked at before, so that the last of them stands.                       *)
Duplicate(id, ts) ==
  /\ pc = "loop"
  /\ InOrder(ts)
  /\ id \in Kept \cup fresh
  /\ pc' = "idle"
  /\ last' = ts
  /\ failed' = TRUE
  /\ batch' = <<>> /\ fresh' = {} /\ gone' = {}
  /\ UNCHANGED <<policy, seen, stored, seq, kept, heap, df, post, largest, inner, twice>>

(* A batch that goes back in time is refused as a whole, but the time it had*)
(* reached before stands: what is earlier will be refused too.              *)
Refuse(ts) ==
  /\ pc = "idle"
  /\ ts > last
  /\ last' = ts
  /\ UNCHANGED <<policy, pc, seen, stored, seq, kept, heap, df, post, largest, callVars, inner, failed, twice>>

-----------------------------------------------------------------------------
(* Eviction *)

(* Mutant: a store exactly at its capacity evicts.                          *)
AtCapacity == Den * stored >= Num * seen

(* capacity is floor(Num * seen / Den); whole words exceed it exactly when: *)
OverCapacity == Den * stored > Num * seen

(* Mutant: whatever the heap gives first goes, current or not.              *)
IsItem(x) == x.id \in Kept

IsCurrent(x) == x.id \in Kept /\ x = ItemOf(x.id, kept[x.id])

(* _evict_lowest pops until an item is current; the stale ones are lost.    *)
LeastCurrent(x) ==
  /\ x \in heap /\ IsCurrent(x)
  /\ \A y \in heap : IsCurrent(y) => ~Before(y, x)

(* Mutant: the postings of an evicted line stay.                            *)
PostWith(id) == post

PostWithout(id) == [t \in Tokens |-> post[t] \ {id}]

Evict ==
  /\ pc = "evict"
  /\ OverCapacity
  /\ \E x \in heap :
       /\ LeastCurrent(x)
       /\ heap' = {y \in heap : Before(x, y)}
       /\ stored' = stored - kept[x.id].words
       /\ kept' = [kept EXCEPT ![x.id] = NoRecord]
       /\ post' = PostWithout(x.id)
       /\ fresh' = fresh \ {x.id}
       /\ gone' = IF x.id \in fresh THEN gone ELSE gone \cup {x.id}
  /\ UNCHANGED <<policy, pc, last, seen, seq, df, largest, batch, inner, failed, twice>>

Fits ==
  /\ pc = "evict"
  /\ ~OverCapacity
  /\ pc' = "loop"
  /\ UNCHANGED <<policy, gateVars, callVars, inner, failed, twice>>

-----------------------------------------------------------------------------
(* The inner store *)

(* Mutant: the records evicted from earlier batches are not dropped.        *)
InnerKeepsAll(store, ids) == store

(* _Store.drop and BM25Index.remove, which looks for an id under the terms  *)
(* of its record alone.                                                     *)
InnerDrop(store, ids) ==
  LET dropped == ids \cap Held(store.recs) IN
  [store EXCEPT
     !.recs = [id \in Ids |-> IF id \in dropped THEN NoRecord ELSE @[id]],
     !.postings = [t \in Tokens |-> @[t] \ {id \in dropped : t \in store.recs[id].tokens}],
     !.total = @ - Cardinality(Units(store.recs, "length", dropped))]

(* A dict keeps the place of a key it has.                                  *)
SlotFor(store, r) ==
  [length |-> r.length, tokens |-> r.tokens, seq |-> r.seq,
   place |-> IF r.id \in Held(store.recs) THEN store.recs[r.id].place ELSE store.places]

(* _Store._add and BM25Index.add, which removes an id that it has.          *)
InnerAdd(store, r) ==
  LET rest == InnerDrop(store, {r.id}) IN
  [recs     |-> [store.recs EXCEPT ![r.id] = SlotFor(store, r)],
   places   |-> store.places + (IF r.id \in Held(store.recs) THEN 0 ELSE 1),
   postings |-> [t \in Tokens |-> rest.postings[t] \cup (IF t \in r.tokens THEN {r.id} ELSE {})],
   total    |-> rest.total + r.length]

(* The end of _ingest: what left is dropped from the inner store,           *)
Deliver ==
  /\ pc = "loop"
  /\ pc' = "deliver"
  /\ inner' = InnerDrop(inner, gone)
  /\ gone' = {}
  /\ UNCHANGED <<policy, gateVars, batch, fresh, failed, twice>>

(* what stayed is passed on, record by record,                              *)
Pass ==
  /\ pc = "deliver"
  /\ batch # <<>>
  /\ inner' = IF Head(batch).id \in fresh THEN InnerAdd(inner, Head(batch)) ELSE inner
  /\ batch' = Tail(batch)
  /\ UNCHANGED <<policy, pc, gateVars, fresh, gone, failed, twice>>

(* and the call returns.                                                    *)
Return ==
  /\ pc = "deliver"
  /\ batch = <<>>
  /\ pc' = "idle"
  /\ fresh' = {}
  /\ UNCHANGED <<policy, gateVars, batch, gone, inner, failed, twice>>

(* LifeMemory.reset, at the head of every run_stream; the inner store is    *)
(* reset by the gate.                                                       *)
Reset ==
  /\ pc = "idle"
  /\ last' = 0 /\ seen' = 0 /\ stored' = 0 /\ seq' = 0 /\ largest' = 0
  /\ kept' = [id \in Ids |-> NoRecord]
  /\ heap' = {}
  /\ df' = [t \in Tokens |-> 0]
  /\ post' = [t \in Tokens |-> {}]
  /\ inner' = Empty
  /\ failed' = FALSE /\ twice' = FALSE
  /\ UNCHANGED <<policy, pc, callVars>>

Next ==
  \/ Start
  \/ \E id \in Ids, words \in Sizes, length \in Lengths, ts \in Times, tokens \in SUBSET Tokens,
        w \in Weights, draw \in Draws : Admit(id, words, length, ts, tokens, w, draw)
  \/ \E id \in Ids, ts \in Times : Duplicate(id, ts)
  \/ \E ts \in Times : Refuse(ts)
  \/ Evict \/ Fits \/ Deliver \/ Pass \/ Return \/ Reset

Spec == Init /\ [][Next]_vars

-----------------------------------------------------------------------------
(* Properties *)

(* "the store never exceeds it and is within one record of it; at R = 1.0   *)
(* nothing is ever evicted" (systems.py, the words on GatedMemory).  Within *)
(* one record of what arrived so far, in exact arithmetic, after any        *)
(* sequence of batches, rejections and failed calls.                        *)
WithinOneRecord ==
  policy # "ALL" /\ pc # "evict" =>
    /\ Den * stored <= Num * seen
    /\ stored = seen \/ Num * seen < Den * (stored + largest)
    /\ Num = Den => stored = seen

(* A record that leaves had the least current weight of all that were kept, *)
(* ties by the draw and then the older: items of the heap that a re-mention *)
(* made stale neither protect a record nor cost one its place.              *)
EvictsTheLeast ==
  [][pc = "evict" =>
       \A id \in Kept : kept'[id] = NoRecord =>
         \A other \in Kept \ {id} : Before(ItemOf(id, kept[id]), ItemOf(other, kept[other]))]_vars

(* Under GR what is kept is the end of the stream: when a record has left,  *)
(* so has everything that arrived before it.                                *)
NewestStay ==
  policy = "GR" =>
    \A id \in Kept : \A s \in kept[id].seq .. (seq - 1) : \E k \in Kept : kept[k].seq = s

(* "the inner store mirrors the retained set" (test_lifesim_systems.py):    *)
(* between calls, unless one of them raised, the inner store and its BM25   *)
(* index hold the lines the gate keeps, in the order of arrival unless an id*)
(* came twice in one batch.  Each counts exactly these in its own measure:  *)
(* the gate their words, which its capacity is about, the index their       *)
(* tokens, which the average length of BM25 is about.                       *)
InnerMirrors ==
  pc = "idle" /\ ~failed =>
    /\ Held(inner.recs) = Kept
    /\ \A id \in Kept : /\ inner.recs[id].length = kept[id].length
                        /\ inner.recs[id].tokens = kept[id].tokens
                        /\ inner.recs[id].seq = kept[id].seq
    /\ ~twice => \A id, k \in Kept :
         kept[id].seq < kept[k].seq => inner.recs[id].place < inner.recs[k].place
    /\ \A t \in Tokens : inner.postings[t] = {id \in Kept : t \in kept[id].tokens}
    /\ policy = "GM" => inner.postings = post
    /\ inner.total = Cardinality(Units(kept, "length", Kept))
    /\ stored = Cardinality(Units(kept, "words", Kept))
=============================================================================
