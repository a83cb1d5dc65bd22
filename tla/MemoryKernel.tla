---------------------------- MODULE MemoryKernel ----------------------------
(***************************************************************************)
(* The memory kernel of the writer's memory bench: the index over dated     *)
(* items, and what one call of retrieve may see of it                       *)
(* (src/scripts/wmb/kernel/memory_kernel.py build_index, _survey, the name  *)
(* channel of retrieve).                                                    *)
(*                                                                          *)
(* One index serves calls of different dates and tasks.  It holds items a   *)
(* call must not see (dated later, replaced by then, invented), and the     *)
(* statistics of a call are taken from those of the whole index by leaving  *)
(* out the items it hides.  Scores, thresholds and the embedding channel    *)
(* are left out: what they are computed from is here.                       *)
(***************************************************************************)
EXTENDS Integers, Sequences, FiniteSets, FiniteSetsExt, Functions

CONSTANTS
  None,     \* no id
  NoDate,   \* a date that cannot be read
  Stems,    \* the words of the query, each written with a capital
  Inputs,   \* the items a caller may pass
  AsOf,     \* as_of of the index
  Nows,     \* the dates of calls
  RareDf,   \* rare_df of the profile
  MaxFeed   \* bound: items passed

ASSUME KernelAssumption ==
  /\ AsOf \in Nat /\ Nows \subseteq Nat /\ RareDf \in Nat /\ MaxFeed \in Nat
  /\ \A it \in Inputs :
       /\ it.key \in Nat \cup {NoDate} /\ it.origin \in {"account", "fiction"}
       /\ it.id # None
       /\ it.names \subseteq it.stems /\ it.stems \subseteq Stems

VARIABLES
  phase,  \* "listing", then "ready"
  feed,   \* history: what was passed
  listed, \* what was kept, and how many items were rejected for what
  index,  \* the index, or None
  bare    \* history: for a call, what would be listed of what it knows of

kernelVars == <<phase, feed, listed, index, bare>>

(* A call is dated, and allows fiction or not.                              *)
Calling == Nows \X BOOLEAN

NothingListed == [items |-> <<>>, rejected |-> [invalid |-> 0, future |-> 0, duplicate |-> 0]]

KernelInit ==
  /\ phase = "listing"
  /\ feed = <<>>
  /\ listed = NothingListed
  /\ index = None
  /\ bare = [call \in Calling |-> NothingListed]

-----------------------------------------------------------------------------
(* build_index *)

Verdict(items, it) ==
  IF it.key = NoDate THEN "invalid"
  ELSE IF it.key > AsOf THEN "future"
  ELSE IF \E i \in DOMAIN items : items[i].id = it.id THEN "duplicate"
  ELSE "kept"

Accept(list, it) ==
  LET verdict == Verdict(list.items, it) IN
  IF verdict = "kept" THEN [list EXCEPT !.items = Append(@, it)]
  ELSE [list EXCEPT !.rejected[verdict] = @ + 1]

(* What a call knows of: the items dated before it and, where fiction is not*)
(* allowed, no fiction but that which replaces something.                   *)
KnownTo(call, it) ==
  /\ it.key # NoDate /\ it.key < call[1]
  /\ it.origin = "fiction" /\ it.supersedes = None => call[2]

List(it) ==
  /\ phase = "listing"
  /\ Len(feed) < MaxFeed
  /\ feed' = Append(feed, it)
  /\ listed' = Accept(listed, it)
  /\ bare' = [call \in Calling |-> IF KnownTo(call, it) THEN Accept(bare[call], it) ELSE bare[call]]
  /\ UNCHANGED <<phase, index>>

(* The link from an item to the one it says it replaces, of those listed.   *)
Replaces(items) == {link \in items \X items : link[1].supersedes = link[2].id}

(* Where links lead from an item: the least set with it that they stay in.  *)
Reached(items, links, it) ==
  {x \in items : \A set \in SUBSET items :
     it \in set /\ (\A link \in links : link[1] \in set => link[2] \in set) => x \in set}

(* Mutant: cycles are not looked for.                                       *)
NoCycle(items, new, old) == FALSE

(* closes_cycle: the way from old, by links within its instant, meets new   *)
(* or never ends.                                                           *)
ClosesCycle(items, new, old) ==
  LET AtInstant == {link \in Replaces(items) : link[1].key = old.key /\ link[2].key = old.key}
      met == Reached(items, AtInstant, old)
  IN  new \in met \/ \A it \in met : \E link \in AtInstant : link[1] = it

(* The links that count.                                                    *)
Links(items) ==
  {link \in Replaces(items) :
     /\ link[1] # link[2]
     /\ link[1].key >= link[2].key
     /\ link[1].key = link[2].key => ~ClosesCycle(items, link[1], link[2])}

(* superseded_by holds the date of the earliest replacement.                *)
FirstDate(dates) == Min(dates)

SupersededBy(items) ==
  [id \in {link[2].id : link \in Links(items)} |->
     FirstDate({link[1].key : link \in {l \in Links(items) : l[2].id = id}})]

CountWith(stem, items) == Cardinality({it \in items : stem \in it.stems})

IndexOf(list) ==
  LET items == Range(list.items) IN
  [items |-> items, df |-> [t \in Stems |-> CountWith(t, items)], superseded |-> SupersededBy(items)]

(* The items end, or reading them raises: what was read is indexed, and the *)
(* failure counts as an invalid item.                                       *)
Build ==
  /\ phase = "listing"
  /\ phase' = "ready"
  /\ index' = IndexOf(listed)
  /\ \/ UNCHANGED listed
     \/ listed' = [listed EXCEPT !.rejected.invalid = @ + 1]
  /\ UNCHANGED <<feed, bare>>

KernelNext == (\E it \in Inputs : List(it)) \/ Build

KernelSpec == KernelInit /\ [][KernelNext]_kernelVars

-----------------------------------------------------------------------------
(* What a call sees: read-only, so operators and not actions                *)

Replaced(ix, it, now) == it.id \in DOMAIN ix.superseded /\ ix.superseded[it.id] < now

Hidden(ix, it, now, persona) ==
  \/ it.key >= now
  \/ Replaced(ix, it, now)
  \/ it.origin = "fiction" /\ ~persona

(* Mutant: what the call hides still counts in the frequencies.             *)
WholeFrequencies(ix, hidden) == ix.df

(* The frequencies of a call: those of the index, less the hidden items.    *)
Frequencies(ix, hidden) == [t \in Stems |-> ix.df[t] - CountWith(t, hidden)]

(* A capitalised word that a visible item writes in lower case.             *)
Lowered(shown, t) == \E it \in shown : t \in it.stems \ it.names

(* What a call computes its scores from, and what its names hit.            *)
Call(ix, now, persona) ==
  LET hidden == {it \in ix.items : Hidden(ix, it, now, persona)}
      shown == ix.items \ hidden
      frequency == Frequencies(ix, hidden)
      rare == {t \in Stems : ~Lowered(shown, t) /\ frequency[t] \in 1 .. RareDf}
  IN  [shown |-> shown, frequency |-> frequency, hits |-> {it \in shown : it.names \cap rare # {}}]

-----------------------------------------------------------------------------
(* Properties *)

(* From an item to those that replace it, over the links that count and are *)
(* dated before a call: the way superseded_by hides items of it.            *)
Heirs(items, now) == {<<link[2], link[1]>> : link \in {l \in Links(items) : l[1].key < now}}

(* A call finds no item replaced without a heir: from a replaced item the   *)
(* replacements that count lead, all of them dated before the call, to one  *)
(* that is not itself replaced, so that the call may see it, however the    *)
(* claims of one instant are tangled.                                       *)
ReplacedHasHeir ==
  phase = "ready" =>
    \A now \in Nows, it \in index.items :
      Replaced(index, it, now) =>
        \E heir \in Reached(index.items, Heirs(index.items, now), it) :
          heir # it /\ heir.key < now /\ ~Replaced(index, heir, now)

OnceEach == \A i, j \in DOMAIN feed : feed[i].id = feed[j].id => i = j

(* "what a call may not see ... cannot change the idf of what it may"       *)
(* (_survey).  A call gives what it would give over an index that was never *)
(* passed what it does not know of, no id being passed twice.               *)
HiddenChangesNothing ==
  phase = "ready" /\ OnceEach =>
    \A call \in Calling : Call(index, call[1], call[2]) = Call(IndexOf(bare[call]), call[1], call[2])
=============================================================================
