------------------------------ MODULE SpendCap ------------------------------
(***************************************************************************)
(* The arena's money: the shared spend ledger and the two wrappers that    *)
(* refuse a paid request before it is made                                 *)
(* (src/scripts/arena/spend_ledger.py SpendLedger,                         *)
(* src/scripts/arena/provider_proxy.py ProxyState and Handler.do_POST,     *)
(* src/scripts/arena/decoding.py FixedDecoding; metered_proxy.py and       *)
(* flash_only_proxy.py serve the same handler).                            *)
(*                                                                         *)
(* A request is checked against both caps, forwarded, priced and recorded. *)
(* The check holds the lock of its process; forwarding does not, and       *)
(* another process has another lock.  Money is in whole units; where the   *)
(* code multiplies by 1.5 the model compares doubled sums.                 *)
(***************************************************************************)
EXTENDS Naturals, Sequences, FiniteSets, FiniteSetsExt, Functions

CONSTANTS
  Procs,        \* processes that share the ledger file; one run_id each
  Workers,      \* request threads
  ProcOf,       \* the process of each thread
  Clients,      \* processes that use FixedDecoding; the others are proxies
  Costs,        \* what the provider may charge for one request
  TotalCap,     \* total_cap_usd
  RunCap,       \* run_cap_usd, spend_cap_usd
  FirstReserve, \* first_call_reserve_usd
  Scoped,       \* whether cap_scope is given; it then matches every run here
  Faults,       \* see FaultKinds
  MaxCalls      \* bound: requests forwarded

(* A reply without usable token counts; a record cut short on disk; the     *)
(* death of a process.                                                      *)
FaultKinds == {"unpriced", "torn", "crash"}

ASSUME SpendAssumption ==
  /\ IsFiniteSet(Workers) /\ Workers # {}
  /\ ProcOf \in [Workers -> Procs]
  /\ Clients \subseteq Procs
  /\ Costs \subseteq Nat /\ \E least, most \in Costs : \A c \in Costs : least <= c /\ c <= most
  /\ TotalCap \in Nat /\ RunCap \in Nat /\ FirstReserve \in Nat /\ MaxCalls \in Nat
  /\ Scoped \in BOOLEAN
  /\ Faults \subseteq FaultKinds

VARIABLES
  lines,     \* the terminated lines of spend-ledger.jsonl
  tail,      \* what follows the last newline: <<>>, or one cut record
  calls,     \* per process: how many calls it logged, their sum and maximum
  pc,        \* per thread: "idle", "forward", "record"
  due,       \* per thread: the price of the reply in hand
  paid,      \* history: what the provider charged in all
  attempted, \* history: the prices handed to SpendLedger.record, summed
  tears,     \* history: how many records were cut short
  forwarded, \* history: how many requests were forwarded
  calm       \* history: no fault so far

vars == <<lines, tail, calls, pc, due, paid, attempted, tears, forwarded, calm>>

NoCalls == [n |-> 0, spent |-> 0, largest |-> 0]
Torn == [usd |-> 0, torn |-> TRUE]
Priced(c) == [usd |-> c, torn |-> FALSE]

TypeOK ==
  /\ lines \in Seq([usd : Nat, torn : BOOLEAN])
  /\ tail \in Seq([usd : Nat, torn : BOOLEAN]) /\ Len(tail) <= 1
  /\ calls \in [Procs -> [n : Nat, spent : Nat, largest : Nat]]
  /\ pc \in [Workers -> {"idle", "forward", "record"}]
  /\ due \in [Workers -> Nat]
  /\ paid \in Nat /\ attempted \in Nat /\ tears \in Nat /\ forwarded \in Nat
  /\ calm \in BOOLEAN

Init ==
  /\ lines = <<>>
  /\ tail = <<>>
  /\ calls = [p \in Procs |-> NoCalls]
  /\ pc = [w \in Workers |-> "idle"]
  /\ due = [w \in Workers |-> 0]
  /\ paid = 0 /\ attempted = 0 /\ tears = 0 /\ forwarded = 0
  /\ calm = TRUE

-----------------------------------------------------------------------------
(* SpendLedger.entries, total_usd, scoped_usd                               *)

(* Mutant: reading stops at the first line that does not parse.             *)
EntriesUpToTorn ==
  LET all == lines \o tail
      readable == {k \in 0 .. Len(all) : \A j \in 1 .. k : ~all[j].torn}
  IN  SubSeq(all, 1, Max(readable))

(* A torn last line is read like any other line that does not parse; cut    *)
(* just before its newline it does parse.                                   *)
Entries == lines \o tail

(* What each entry is charged.  A torn one is charged the most seen before  *)
(* it; it has no run_id, so no cap_scope counts it.                         *)
Charged ==
  [i \in DOMAIN Entries |->
    IF Entries[i].torn THEN Max({0} \cup {Entries[j].usd : j \in 1 .. (i - 1)})
    ELSE Entries[i].usd]

TotalUsd == SumFunction(Charged)

ScopedUsd ==
  IF Scoped THEN SumFunctionOnSet(Charged, {i \in DOMAIN Entries : ~Entries[i].torn})
  ELSE TotalUsd

(* Mutant: no reserve.                                                      *)
NoReserve(p) == 0

(* ProxyState.reserve, FixedDecoding.check_cap: half as much again as the   *)
(* dearest call this process has seen; doubled.                             *)
TwiceReserve(p) == IF calls[p].n > 0 THEN 3 * calls[p].largest ELSE 2 * FirstReserve

(* Mutant: the shared total is not consulted.                               *)
RefusedByRunCap(p) == 2 * calls[p].spent + TwiceReserve(p) > 2 * RunCap

(* SpendLedger.check, then the cap of the run.                              *)
Refused(p) ==
  \/ 2 * ScopedUsd + TwiceReserve(p) > 2 * TotalCap
  \/ 2 * calls[p].spent + TwiceReserve(p) > 2 * RunCap

-----------------------------------------------------------------------------
(* A request *)

Goto(w, label) == pc' = [pc EXCEPT ![w] = label]

(* do_POST up to the forwarding, create up to the provider's client.  A     *)
(* refused request (402, an exception) changes nothing but the refusal count*)
Check(w) ==
  /\ pc[w] = "idle"
  /\ forwarded < MaxCalls
  /\ ~Refused(ProcOf[w])
  /\ forwarded' = forwarded + 1
  /\ Goto(w, "forward")
  /\ UNCHANGED <<lines, tail, calls, due, paid, attempted, tears, calm>>

(* The provider replies with a usage block.                                 *)
Reply(w) ==
  /\ pc[w] = "forward"
  /\ \E c \in Costs : paid' = paid + c /\ due' = [due EXCEPT ![w] = c]
  /\ Goto(w, "record")
  /\ UNCHANGED <<lines, tail, calls, attempted, tears, forwarded, calm>>

(* A streamed or unparseable reply, an error status, or a timeout after     *)
(* which the provider charged all the same: priced at zero tokens.          *)
ReplyUnpriced(w) ==
  /\ "unpriced" \in Faults
  /\ pc[w] = "forward"
  /\ \E c \in Costs \cup {0} : paid' = paid + c
  /\ due' = [due EXCEPT ![w] = 0]
  /\ Goto(w, "record")
  /\ calm' = FALSE
  /\ UNCHANGED <<lines, tail, calls, attempted, tears, forwarded>>

(* In a client the exception goes to the caller and nothing is logged.      *)
ClientRaises(w) ==
  /\ "unpriced" \in Faults
  /\ ProcOf[w] \in Clients
  /\ pc[w] = "forward"
  /\ \E c \in Costs \cup {0} : paid' = paid + c
  /\ Goto(w, "idle")
  /\ calm' = FALSE
  /\ UNCHANGED <<lines, tail, calls, due, attempted, tears, forwarded>>

Logged(p, c) ==
  calls' = [calls EXCEPT ![p] = [n |-> @.n + 1, spent |-> @.spent + c,
                                 largest |-> IF c > @.largest THEN c ELSE @.largest]]

(* Mutant: the caller records the call once more.                           *)
RecordTwice(w) ==
  /\ pc[w] = "record"
  /\ Logged(ProcOf[w], due[w])
  /\ lines' = lines \o <<Priced(due[w]), Priced(due[w])>>
  /\ Goto(w, "idle")
  /\ UNCHANGED <<tail, due, attempted, paid, tears, forwarded, calm>>

(* The call is logged in the process, then SpendLedger.record appends one   *)
(* line; after a torn record it lands on the torn line.                     *)
Record(w) ==
  /\ pc[w] = "record"
  /\ Logged(ProcOf[w], due[w])
  /\ lines' = Append(lines, IF tail = <<>> THEN Priced(due[w]) ELSE Torn)
  /\ tail' = <<>>
  /\ attempted' = attempted + due[w]
  /\ due' = [due EXCEPT ![w] = 0]
  /\ Goto(w, "idle")
  /\ UNCHANGED <<paid, tears, forwarded, calm>>

(* Mutant: every torn record is an entry of its own.                        *)
RecordTornApart(w) ==
  /\ "torn" \in Faults
  /\ pc[w] = "record"
  /\ tail' = Append(tail, Torn)
  /\ tears' = tears + 1
  /\ Goto(w, "idle")
  /\ calm' = FALSE
  /\ UNCHANGED <<lines, calls, due, attempted, paid, forwarded>>

(* SpendLedger.record raises part way through the line.                     *)
RecordTorn(w) ==
  /\ "torn" \in Faults
  /\ pc[w] = "record"
  /\ Logged(ProcOf[w], due[w])
  /\ \E cut \in {Torn, Priced(due[w])} : tail' = <<IF tail = <<>> THEN cut ELSE Torn>>
  /\ tears' = tears + 1
  /\ attempted' = attempted + due[w]
  /\ due' = [due EXCEPT ![w] = 0]
  /\ Goto(w, "idle")
  /\ calm' = FALSE
  /\ UNCHANGED <<lines, paid, forwarded>>

(* The process dies with its threads and starts again; its call log was in  *)
(* memory.                                                                  *)
Crash(p) ==
  /\ "crash" \in Faults
  /\ calls[p] # NoCalls \/ \E w \in Workers : ProcOf[w] = p /\ pc[w] # "idle"
  /\ calls' = [calls EXCEPT ![p] = NoCalls]
  /\ pc' = [w \in Workers |-> IF ProcOf[w] = p THEN "idle" ELSE pc[w]]
  /\ due' = [w \in Workers |-> IF ProcOf[w] = p THEN 0 ELSE due[w]]
  /\ calm' = FALSE
  /\ UNCHANGED <<lines, tail, paid, attempted, tears, forwarded>>

Next ==
  \/ \E w \in Workers : \/ Check(w) \/ Reply(w) \/ ReplyUnpriced(w)
                        \/ ClientRaises(w) \/ Record(w) \/ RecordTorn(w)
  \/ \E p \in Procs : Crash(p)

Spec == Init /\ [][Next]_vars

-----------------------------------------------------------------------------
(* Properties *)

MaxCost == Max(Costs)
MinCost == Min(Costs)

(* No call costs more than the reserve: prices vary by half at most and the *)
(* first reserve is not too small.                                          *)
Steady == 2 * MaxCost <= 3 * MinCost /\ MaxCost <= FirstReserve

(* "A request that could cross the cap is never forwarded"                  *)
(* (metered_proxy.py): the provider never charges more than the total cap.  *)
HardCap == paid <= TotalCap

(* Every check that passes leaves room for one call, and at most one call   *)
(* per thread is unaccounted for when it passes: with steady prices, and    *)
(* before the first fault, the overspend is at most one call for every      *)
(* thread but one.                                                          *)
OverspendBounded ==
  Steady /\ calm => paid <= TotalCap + (Cardinality(Workers) - 1) * MaxCost

(* The same for the cap of one run and the threads of its process.          *)
RunOverspendBounded ==
  Steady /\ calm =>
    \A p \in Procs : LET threads == {w \in Workers : ProcOf[w] = p} IN
      threads # {} => calls[p].spent <= RunCap + (Cardinality(threads) - 1) * MaxCost

(* The ledger is wrong by its torn records alone.  A cut record hides itself *)
(* and the record that lands on its line, so that what the cap counts is    *)
(* short by two calls per cut at most; and nothing is charged twice: it     *)
(* exceeds what was paid by no more than the guess made for each torn one.  *)
LedgerErrorBoundedByTears ==
  /\ attempted <= ScopedUsd + 2 * MaxCost * tears
  /\ TotalUsd <= paid + MaxCost * tears
=============================================================================
