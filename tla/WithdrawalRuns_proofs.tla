------------------------ MODULE WithdrawalRuns_proofs ------------------------
(***************************************************************************)
(* Proofs about WithdrawalRuns, for any number of requests, runs,           *)
(* forwarders and faults.                                                  *)
(*                                                                         *)
(* None of the safety properties is inductive: each depends on what some    *)
(* request knows of a run while others work on the row.  A request holds a  *)
(* run from its fence to its park or its submission.  Inv says that a run   *)
(* has at most one holder, that a held run, and one whose session is in     *)
(* memory, was not submitted yet, and that what a request has read of the   *)
(* relayer is still true of the run in the slot, or is about a run that has *)
(* left the slot for good.                                                 *)
(***************************************************************************)
EXTENDS WithdrawalRuns, FiniteSetTheorems, TLAPS

Ops == {"none", "withdraw", "drive", "answer", "run", "get"}
Stages == {"idle", "supersede", "verdict", "reread", "goon", "mint", "start", "sign", "route",
           "answer", "fresh", "fence", "advance", "park", "record", "mark", "confirm", "release"}
CallRecords ==
    [op : Ops, stage : Stages, dest : Dests \cup {Zero}, want : Addresses \cup {Zero},
     addr : Addresses \cup {Zero}, run : Runs \cup {Zero}, from : States,
     overdue : BOOLEAN, signed : BOOLEAN]
RowRecords ==
    [state : States, run : Runs \cup {Zero}, handle : Runs \cup {Zero},
     addr : Addresses \cup {Zero}, expired : BOOLEAN]

\* The request drives the run of k to its next park or submission.
Holder(k) == k.stage \in {"fence", "advance", "park"}

\* A request that may start a run knows a forwarder, one that withdraws its destination.
KnowsAddress(k) ==
    /\ k.op = "withdraw" => k.dest \in Dests
    /\ k.stage \in {"supersede", "reread", "goon", "mint"} => k.op = "withdraw"
    /\ k.stage \in {"start", "answer", "fresh", "release"} \/ k.overdue => k.addr \in Addresses

\* What a request may rely on about its run.
KnowsRun(k) ==
    /\ k.run \in DOMAIN runs \cup {Zero}
    /\ Holder(k) \/ k.stage = "record" => k.run # Zero
    /\ Holder(k) => sent[k.run] = 0
    /\ k.stage \in {"fence", "advance"} => k.run \notin live
    /\ k.stage \in {"advance", "park"} /\ row.run = k.run => row.state # "PENDING"
    /\ k.stage = "advance" /\ k.signed /\ row.run = k.run => row.state # "FAILED"
    /\ k.stage = "mark" => row.run # Zero /\ (row.run = k.run => tx[row.run] = "landed")
    /\ k.stage = "fresh" /\ k.from = "SUBMITTING" /\ row.run = k.run /\ row.run # Zero
         => tx[row.run] = "failed"

Knows(k) == KnowsAddress(k) /\ KnowsRun(k)

CallOK == call \in [Calls -> CallRecords] /\ \A c \in Calls : Knows(call[c])

OneHolder ==
    \A c, d \in Calls :
        Holder(call[c]) /\ Holder(call[d]) /\ call[c].run = call[d].run => c = d

\* Runs and forwarders are numbered, and what a run has sent is what the relayer has of it.
RunsOK ==
    /\ \E n \in 0..MaxRuns : runs \in [1..n -> Addresses]
    /\ \E n \in 0..MaxMints : minted \in [1..n -> Dests]
    /\ live \subseteq DOMAIN runs
    /\ ledger \in [Runs -> {"none", "SUBMITTING", "FAILED", "CONFIRMED"}]
    /\ tx \in [Runs -> {"none", "queued", "landed", "failed"}]
    /\ sent \in [Runs -> 0..1]
    /\ \A r \in Runs : sent[r] = 0 <=> tx[r] = "none"
    /\ \A r \in Runs : r \in live \/ r \notin DOMAIN runs => sent[r] = 0

\* The state of the slot agrees with what its run sent.
RowOK ==
    /\ row \in RowRecords
    /\ row.run \in DOMAIN runs \cup {Zero}
    /\ row.state = "none" <=> row.run = Zero
    /\ row.run # Zero => row.addr \in Addresses
    /\ row.handle \in {Zero, row.run}
    /\ row.state = "PENDING" => sent[row.run] = 0
    /\ row.state = "FAILED" => tx[row.run] \in {"none", "failed"}
    /\ row.state = "DONE" => tx[row.run] = "landed"

Inv == CallOK /\ OneHolder /\ RunsOK /\ RowOK

-----------------------------------------------------------------------------
(* Records of requests.                                                     *)

\* A request that is over knows nothing and holds nothing.
LEMMA NoCallKnows ==
  NoCall \in CallRecords /\ Knows(NoCall) /\ ~Holder(NoCall)
  BY DEF NoCall, CallRecords, Knows, KnowsAddress, KnowsRun, Holder, Ops, Stages, States

\* A request that moves on to its next stage keeps the rest of its record.
LEMMA StageTyped ==
  ASSUME NEW k \in CallRecords, NEW s \in Stages
  PROVE  /\ [k EXCEPT !.stage = s] \in CallRecords
         /\ [k EXCEPT !.stage = s].stage = s
         /\ [k EXCEPT !.stage = s].op = k.op
         /\ [k EXCEPT !.stage = s].dest = k.dest
         /\ [k EXCEPT !.stage = s].addr = k.addr
         /\ [k EXCEPT !.stage = s].run = k.run
         /\ [k EXCEPT !.stage = s].from = k.from
         /\ [k EXCEPT !.stage = s].overdue = k.overdue
         /\ [k EXCEPT !.stage = s].signed = k.signed
  BY DEF CallRecords

\* A request that is served the signature of a run waits for its device or ends.
LEMMA ServedKnows ==
  ASSUME NEW k \in CallRecords, NEW r \in Runs, r \in DOMAIN runs
  PROVE  Served(k, r) \in CallRecords /\ Knows(Served(k, r)) /\ ~Holder(Served(k, r))
<1>1. CASE k.want = Zero BY <1>1, NoCallKnows DEF Served
<1>2. CASE k.want # Zero
  <2>1. Served(k, r) = [NoCall EXCEPT !.op = "answer", !.stage = "sign", !.want = k.want, !.run = r]
    BY <1>2 DEF Served
  <2>2. Served(k, r) \in CallRecords
    BY <2>1 DEF NoCall, CallRecords, Ops, Stages, States
  <2>3. /\ Served(k, r).op = "answer" /\ Served(k, r).stage = "sign" /\ Served(k, r).run = r
        /\ Served(k, r).overdue = FALSE
    BY <2>1 DEF NoCall
  <2> QED BY <2>2, <2>3 DEF Knows, KnowsAddress, KnowsRun, Holder
<1> QED BY <1>1, <1>2

\* A step of one request keeps the invariant if the request knows what it must, becomes no
\* second holder, and what the others know stays true.
LEMMA OneCall ==
  ASSUME Inv, NEW c \in Calls, NEW k \in CallRecords, call' = [call EXCEPT ![c] = k],
         RunsOK', RowOK', Knows(k)',
         \A d \in Calls \ {c} : Knows(call[d]) => Knows(call[d])',
         Holder(k) => \A d \in Calls \ {c} : Holder(call[d]) => call[d].run # k.run
  PROVE  Inv'
<1>1. call' \in [Calls -> CallRecords] BY DEF Inv, CallOK
<1>2. call'[c] = k /\ \A d \in Calls \ {c} : call'[d] = call[d] BY DEF Inv, CallOK
<1>3. ASSUME NEW d \in Calls PROVE Knows(call[d])'
  <2>1. CASE d = c BY <1>2, <2>1 DEF Knows, KnowsAddress, KnowsRun, Holder
  <2>2. CASE d # c BY <2>2 DEF Inv, CallOK
  <2> QED BY <2>1, <2>2
<1>4. OneHolder' BY <1>2 DEF Inv, OneHolder, Holder
<1> QED BY <1>1, <1>3, <1>4 DEF Inv, CallOK

\* A step that changes nothing but what one request does, and the relayer's log.
LEMMA CallOnly ==
  ASSUME Inv, NEW c \in Calls, NEW k \in CallRecords, call' = [call EXCEPT ![c] = k],
         UNCHANGED <<row, live, runs, minted, tx, sent>>,
         ledger' \in [Runs -> {"none", "SUBMITTING", "FAILED", "CONFIRMED"}],
         Knows(k), ~Holder(k)
  PROVE  Inv'
<1>1. RunsOK' /\ RowOK' BY DEF Inv, RunsOK, RowOK
<1>2. Knows(k)' BY DEF Knows, KnowsAddress, KnowsRun, Holder
<1>3. \A d \in Calls \ {c} : Knows(call[d]) => Knows(call[d])'
  <2>1. \A d \in Calls \ {c} : call'[d] = call[d] BY DEF Inv, CallOK
  <2> QED BY <2>1 DEF Knows, KnowsAddress, KnowsRun, Holder
<1> QED BY <1>1, <1>2, <1>3, OneCall

-----------------------------------------------------------------------------
(* Steps that change only what a request does.                             *)

\* What the row of a run that exists says of it.
LEMMA RowNames ==
  ASSUME Inv, row.state # "none"
  PROVE  row.run \in DOMAIN runs /\ row.run \in Runs /\ row.addr \in Addresses
<1>1. PICK n \in 0..MaxRuns : runs \in [1..n -> Addresses] BY DEF Inv, RunsOK
<1>2. DOMAIN runs \subseteq Runs BY <1>1, WithdrawAssumption DEF Runs
<1> QED BY <1>2 DEF Inv, RowOK

\* The withdrawal goes on with the forwarder of a failed run, or to the bridge.
LEMMA OnRowStep ==
  ASSUME Inv, NEW c \in Calls, NEW k \in CallRecords, k.op = "withdraw", k.dest \in Dests,
         k.overdue => k.addr \in Addresses, OnRow(c, k),
         UNCHANGED <<row, live, runs, minted, ledger, tx, sent>>
  PROVE  Inv'
<1>1. ledger' \in [Runs -> {"none", "SUBMITTING", "FAILED", "CONFIRMED"}] BY DEF Inv, RunsOK
<1>2. CASE Reusable(k.dest)
  <2> DEFINE q == [k EXCEPT !.stage = "start", !.addr = row.addr, !.want = row.addr,
                            !.run = Zero, !.from = "none"]
  <2>1. row.addr \in Addresses BY <1>2, RowNames DEF Reusable
  <2>2. q \in CallRecords BY <2>1 DEF CallRecords, Stages, States
  <2>3. q.stage = "start" /\ q.run = Zero /\ q.addr = row.addr /\ q.op = k.op /\ q.dest = k.dest
    BY DEF CallRecords
  <2>4. Knows(q) /\ ~Holder(q) BY <2>1, <2>3 DEF Knows, KnowsAddress, KnowsRun, Holder
  <2>5. call' = [call EXCEPT ![c] = q] BY <1>2 DEF OnRow, To
  <2> QED BY <1>1, <2>2, <2>4, <2>5, CallOnly
<1>3. CASE ~Reusable(k.dest)
  <2> DEFINE q == [k EXCEPT !.stage = "mint", !.run = Zero, !.from = "none"]
  <2>1. q \in CallRecords BY DEF CallRecords, Stages, States
  <2>2. /\ q.stage = "mint" /\ q.run = Zero /\ q.addr = k.addr /\ q.op = k.op /\ q.dest = k.dest
        /\ q.overdue = k.overdue
    BY DEF CallRecords
  <2>3. Knows(q) /\ ~Holder(q) BY <2>2 DEF Knows, KnowsAddress, KnowsRun, Holder
  <2>4. call' = [call EXCEPT ![c] = q] BY <1>3 DEF OnRow, To
  <2> QED BY <1>1, <2>1, <2>3, <2>4, CallOnly
<1> QED BY <1>2, <1>3

\* A request that ends.
LEMMA EndsStep ==
  ASSUME Inv, NEW c \in Calls, Ends(c), UNCHANGED <<row, live, runs, minted, ledger, tx, sent>>
  PROVE  Inv'
<1>1. ledger' \in [Runs -> {"none", "SUBMITTING", "FAILED", "CONFIRMED"}] BY DEF Inv, RunsOK
<1> QED BY <1>1, NoCallKnows, CallOnly DEF Ends, To

\* A request that takes over what it has read of the row, on its way to a verdict or a start.
LEMMA ReadStep ==
  ASSUME Inv, NEW c \in Calls, NEW k \in CallRecords, NEW s \in Stages,
         s \in {"supersede", "verdict", "fresh"}, k.run = row.run, k.from = row.state,
         s = "fresh" => row.state # "SUBMITTING" /\ k.addr \in Addresses,
         k.op = "withdraw" => k.dest \in Dests, s = "supersede" => k.op = "withdraw",
         k.overdue => k.addr \in Addresses,
         call' = [call EXCEPT ![c] = [k EXCEPT !.stage = s]],
         UNCHANGED <<row, live, runs, minted, ledger, tx, sent>>
  PROVE  Inv'
<1> DEFINE q == [k EXCEPT !.stage = s]
<1>1. ledger' \in [Runs -> {"none", "SUBMITTING", "FAILED", "CONFIRMED"}] BY DEF Inv, RunsOK
<1>2. /\ q \in CallRecords /\ q.stage = s /\ q.op = k.op /\ q.dest = k.dest /\ q.addr = k.addr
      /\ q.run = k.run /\ q.from = k.from /\ q.overdue = k.overdue
  BY StageTyped
<1>3. KnowsAddress(q) BY <1>2 DEF KnowsAddress
<1>4. KnowsRun(q) /\ ~Holder(q) BY <1>2 DEF KnowsRun, Holder, Inv, RowOK
<1> QED BY <1>1, <1>2, <1>3, <1>4, CallOnly DEF Knows

LEMMA WithdrawReadStep ==
  ASSUME Inv, NEW c \in Calls, NEW d \in Dests, WithdrawRead(c, d)
  PROVE  Inv'
<1> DEFINE k == [NoCall EXCEPT !.op = "withdraw", !.dest = d, !.run = row.run, !.from = row.state]
<1>1. /\ k \in CallRecords /\ k.op = "withdraw" /\ k.dest = d /\ k.run = row.run
      /\ k.from = row.state /\ k.overdue = FALSE
  BY DEF NoCall, CallRecords, Ops, Stages, Inv, RowOK, RowRecords
<1>2. UNCHANGED <<row, live, runs, minted, ledger, tx, sent>> BY DEF WithdrawRead
<1>3. CASE row.state = "PENDING"
  <2>1. call' = [call EXCEPT ![c] = [k EXCEPT !.stage = "supersede"]] BY <1>3 DEF WithdrawRead, To
  <2> QED BY <1>1, <1>2, <2>1, ReadStep DEF Stages
<1>4. CASE row.state = "SUBMITTING"
  <2>1. call' = [call EXCEPT ![c] = [k EXCEPT !.stage = "verdict"]] BY <1>4 DEF WithdrawRead, To
  <2> QED BY <1>1, <1>2, <2>1, ReadStep DEF Stages
<1>5. CASE row.state # "PENDING" /\ row.state # "SUBMITTING"
  <2>1. OnRow(c, k) BY <1>5 DEF WithdrawRead
  <2> QED BY <1>1, <1>2, <2>1, OnRowStep
<1> QED BY <1>3, <1>4, <1>5

LEMMA RereadStep ==
  ASSUME Inv, NEW c \in Calls, Reread(c)
  PROVE  Inv'
<1> DEFINE k == [call[c] EXCEPT !.run = row.run, !.from = row.state]
<1>1. call[c] \in CallRecords /\ Knows(call[c]) BY DEF Inv, CallOK
<1>2. /\ call[c].op = "withdraw" /\ call[c].dest \in Dests
      /\ call[c].overdue => call[c].addr \in Addresses
  BY <1>1 DEF Reread, At, Knows, KnowsAddress
<1>3. UNCHANGED <<row, live, runs, minted, ledger, tx, sent>> BY DEF Reread
<1>4. CASE row.state = "SUBMITTING"
  <2>1. k \in CallRecords BY <1>1 DEF CallRecords, Inv, RowOK, RowRecords
  <2>2. /\ k.run = row.run /\ k.from = row.state /\ k.op = call[c].op /\ k.dest = call[c].dest
        /\ k.addr = call[c].addr /\ k.overdue = call[c].overdue
    BY <1>1 DEF CallRecords
  <2>3. [k EXCEPT !.stage = "verdict"]
          = [call[c] EXCEPT !.stage = "verdict", !.run = row.run, !.from = row.state]
    BY <1>1 DEF CallRecords
  <2>4. call' = [call EXCEPT ![c] = [k EXCEPT !.stage = "verdict"]]
    BY <1>4, <2>3 DEF Reread, To
  <2> QED BY <1>2, <1>3, <2>1, <2>2, <2>4, ReadStep DEF Stages
<1>5. CASE row.state # "SUBMITTING" BY <1>1, <1>2, <1>3, <1>5, OnRowStep DEF Reread
<1> QED BY <1>4, <1>5

LEMMA GoOnStep ==
  ASSUME Inv, NEW c \in Calls, GoOn(c)
  PROVE  Inv'
<1>1. call[c] \in CallRecords /\ Knows(call[c]) BY DEF Inv, CallOK
<1>2. /\ call[c].op = "withdraw" /\ call[c].dest \in Dests
      /\ call[c].overdue => call[c].addr \in Addresses
  BY <1>1 DEF GoOn, At, Knows, KnowsAddress
<1> QED BY <1>1, <1>2, OnRowStep DEF GoOn

LEMMA DriveReadStep ==
  ASSUME Inv, NEW c \in Calls, DriveRead(c)
  PROVE  Inv'
<1> DEFINE k == [NoCall EXCEPT !.op = "drive", !.stage = "start", !.addr = row.addr]
<1>1. row.addr \in Addresses BY RowNames DEF DriveRead, Drives
<1>2. k \in CallRecords /\ Knows(k) /\ ~Holder(k)
  <2>1. k \in CallRecords BY <1>1 DEF NoCall, CallRecords, Ops, Stages, States
  <2>2. /\ k.op = "drive" /\ k.stage = "start" /\ k.addr = row.addr /\ k.run = Zero
    BY DEF NoCall
  <2> QED BY <1>1, <2>1, <2>2 DEF Knows, KnowsAddress, KnowsRun, Holder
<1>3. ledger' \in [Runs -> {"none", "SUBMITTING", "FAILED", "CONFIRMED"}]
  BY DEF DriveRead, Inv, RunsOK
<1> QED BY <1>2, <1>3, CallOnly DEF DriveRead, To

\* The device signs or leaves, the route builds its spec from the row.
LEMMA DeviceStep ==
  ASSUME Inv, NEW c \in Calls, DeviceSigns(c) \/ DeviceLeaves(c) \/ AnswerRoute(c) \/ MintFails(c)
  PROVE  Inv'
<1>1. call[c] \in CallRecords /\ Knows(call[c]) BY DEF Inv, CallOK
<1>2. ledger' = ledger /\ UNCHANGED <<row, live, runs, minted, tx, sent>>
  BY DEF DeviceSigns, DeviceLeaves, AnswerRoute, MintFails
<1>3. ledger' \in [Runs -> {"none", "SUBMITTING", "FAILED", "CONFIRMED"}] BY <1>2 DEF Inv, RunsOK
<1>4. CASE Ends(c) BY <1>2, <1>4, EndsStep
<1>5. CASE DeviceSigns(c)
  <2> DEFINE k == [call[c] EXCEPT !.stage = "route"]
  <2>1. /\ k \in CallRecords /\ k.stage = "route" /\ k.op = call[c].op /\ k.dest = call[c].dest
        /\ k.addr = call[c].addr /\ k.run = call[c].run /\ k.overdue = call[c].overdue
    BY <1>1 DEF CallRecords, Stages
  <2>2. Knows(k) /\ ~Holder(k) BY <1>1, <2>1 DEF Knows, KnowsAddress, KnowsRun, Holder
  <2> QED BY <1>2, <1>3, <1>5, <2>1, <2>2, CallOnly DEF DeviceSigns, Goes, To
<1>6. CASE AnswerRoute(c) /\ row.state \in Drives
  <2> DEFINE k == [call[c] EXCEPT !.stage = "answer", !.addr = row.addr]
  <2>1. row.addr \in Addresses BY <1>6, RowNames DEF Drives
  <2>2. k \in CallRecords BY <1>1, <2>1 DEF CallRecords, Stages
  <2>3. /\ k.stage = "answer" /\ k.op = call[c].op /\ k.dest = call[c].dest
        /\ k.addr = row.addr /\ k.run = call[c].run /\ k.overdue = call[c].overdue
    BY <1>1 DEF CallRecords
  <2>4. Knows(k) /\ ~Holder(k) BY <1>1, <2>1, <2>3 DEF Knows, KnowsAddress, KnowsRun, Holder
  <2> QED BY <1>2, <1>3, <1>6, <2>2, <2>4, CallOnly DEF AnswerRoute, To
<1> QED BY <1>4, <1>5, <1>6 DEF DeviceLeaves, AnswerRoute, MintFails

LEMMA CardPollsStep ==
  ASSUME Inv, NEW c \in Calls, CardPolls(c)
  PROVE  Inv'
<1> DEFINE k == [NoCall EXCEPT !.op = "get", !.stage = "verdict", !.run = row.run]
<1>1. row.run \in DOMAIN runs /\ row.run \in Runs BY RowNames DEF CardPolls
<1>2. k \in CallRecords BY <1>1 DEF NoCall, CallRecords, Ops, Stages, States
<1>3. k.op = "get" /\ k.stage = "verdict" /\ k.run = row.run /\ k.overdue = FALSE BY DEF NoCall
<1>4. Knows(k) /\ ~Holder(k) BY <1>1, <1>3 DEF Knows, KnowsAddress, KnowsRun, Holder
<1>5. ledger' \in [Runs -> {"none", "SUBMITTING", "FAILED", "CONFIRMED"}]
  BY DEF CardPolls, Inv, RunsOK
<1> QED BY <1>2, <1>4, <1>5, CallOnly DEF CardPolls, To

-----------------------------------------------------------------------------
(* What every step of a request starts from.                               *)

LEMMA CallKnows ==
  ASSUME Inv, NEW c \in Calls
  PROVE  call[c] \in CallRecords /\ Knows(call[c])
  BY DEF Inv, CallOK

LEMMA LedgerTyped ==
  ASSUME Inv
  PROVE  ledger \in [Runs -> {"none", "SUBMITTING", "FAILED", "CONFIRMED"}]
  BY DEF Inv, RunsOK

\* The run a request works on exists.
LEMMA RunExists ==
  ASSUME Inv, NEW c \in Calls
  PROVE  call[c].run \in DOMAIN runs => call[c].run \in Runs /\ call[c].run # Zero
<1>1. PICK n \in 0..MaxRuns : runs \in [1..n -> Addresses] BY DEF Inv, RunsOK
<1>2. DOMAIN runs \subseteq Runs BY <1>1, WithdrawAssumption DEF Runs
<1> QED BY <1>2 DEF Runs, Zero

\* The record of a request that moves on to a stage.
LEMMA NextStage ==
  ASSUME Inv, NEW c \in Calls, NEW s \in Stages
  PROVE  \E k \in CallRecords :
           /\ k = [call[c] EXCEPT !.stage = s]
           /\ k.stage = s /\ k.op = call[c].op /\ k.dest = call[c].dest /\ k.addr = call[c].addr
           /\ k.run = call[c].run /\ k.from = call[c].from /\ k.overdue = call[c].overdue
           /\ k.signed = call[c].signed
<1> DEFINE k == [call[c] EXCEPT !.stage = s]
<1>1. call[c] \in CallRecords BY CallKnows
<1>2. /\ k \in CallRecords
      /\ k.stage = s /\ k.op = call[c].op /\ k.dest = call[c].dest /\ k.addr = call[c].addr
      /\ k.run = call[c].run /\ k.from = call[c].from /\ k.overdue = call[c].overdue
      /\ k.signed = call[c].signed
  BY <1>1, StageTyped
<1> QED BY <1>2

-----------------------------------------------------------------------------
(* The start of a run, the verdict, the relayer's log.                      *)

LEMMA StartReadStep ==
  ASSUME Inv, NEW c \in Calls, StartRead(c), UNCHANGED live
  PROVE  Inv'
<1> DEFINE k == [call[c] EXCEPT !.run = row.run, !.from = row.state]
<1>1. call[c] \in CallRecords /\ Knows(call[c]) BY CallKnows
<1>2. /\ k \in CallRecords /\ k.run = row.run /\ k.from = row.state /\ k.op = call[c].op
      /\ k.dest = call[c].dest /\ k.addr = call[c].addr /\ k.overdue = call[c].overdue
  BY <1>1 DEF CallRecords, Inv, RowOK, RowRecords
<1>3. call[c].addr \in Addresses /\ (call[c].op = "withdraw" => call[c].dest \in Dests)
  BY <1>1 DEF StartRead, At, Knows, KnowsAddress
<1>4. UNCHANGED <<row, live, runs, minted, ledger, tx, sent>> BY DEF StartRead
<1>5. CASE row.state # "SUBMITTING" /\ To(c, [k EXCEPT !.stage = "fresh"])
  BY <1>2, <1>3, <1>4, <1>5, ReadStep DEF To, Stages
<1>6. CASE Ends(c) BY <1>4, <1>6, EndsStep
<1>7. CASE row.state = "SUBMITTING" /\ To(c, [k EXCEPT !.stage = "verdict", !.overdue = Overdue])
  <2> DEFINE q == [k EXCEPT !.overdue = Overdue]
  <2>1. /\ q \in CallRecords /\ q.run = row.run /\ q.from = row.state /\ q.op = call[c].op
        /\ q.dest = call[c].dest /\ q.addr = call[c].addr
    BY <1>2 DEF CallRecords, Overdue
  <2>2. [k EXCEPT !.stage = "verdict", !.overdue = Overdue] = [q EXCEPT !.stage = "verdict"]
    BY <1>2 DEF CallRecords
  <2>3. call' = [call EXCEPT ![c] = [q EXCEPT !.stage = "verdict"]] BY <1>7, <2>2 DEF To
  <2> HIDE DEF q
  <2> QED BY <1>3, <1>4, <2>1, <2>3, ReadStep DEF Stages
<1>8. CASE row.state = "PENDING" /\ To(c, Served(k, row.run))
  <2>1. row.run \in DOMAIN runs /\ row.run \in Runs BY <1>8, RowNames
  <2>2. Served(k, row.run) \in CallRecords /\ Knows(Served(k, row.run)) /\ ~Holder(Served(k, row.run))
    BY <1>2, <2>1, ServedKnows
  <2> QED BY <1>4, <1>8, <2>2, LedgerTyped, CallOnly DEF To
<1> QED BY <1>5, <1>6, <1>7, <1>8 DEF StartRead

LEMMA AskVerdictStep ==
  ASSUME Inv, NEW c \in Calls, AskVerdict(c)
  PROVE  Inv'
<1>1. call[c] \in CallRecords /\ Knows(call[c]) BY CallKnows
<1>2. UNCHANGED <<row, live, runs, minted, ledger, tx, sent>> BY DEF AskVerdict
<1>3. CASE Ends(c) BY <1>2, <1>3, EndsStep
<1>4. CASE Verdict = "landed" /\ Goes(c, "mark")
  <2>1. row.run # Zero /\ tx[row.run] = "landed" BY <1>4 DEF Verdict, Inv, RowOK
  <2>2. PICK k \in CallRecords :
          /\ k = [call[c] EXCEPT !.stage = "mark"]
          /\ k.stage = "mark" /\ k.op = call[c].op /\ k.dest = call[c].dest
          /\ k.addr = call[c].addr /\ k.run = call[c].run /\ k.overdue = call[c].overdue
    BY NextStage DEF Stages
  <2>3. Knows(k) /\ ~Holder(k) BY <1>1, <2>1, <2>2 DEF Knows, KnowsAddress, KnowsRun, Holder
  <2> QED BY <1>2, <1>4, <2>2, <2>3, LedgerTyped, CallOnly DEF Goes, To
<1>5. CASE call[c].overdue /\ Goes(c, "release")
  <2>2. PICK k \in CallRecords :
          /\ k = [call[c] EXCEPT !.stage = "release"]
          /\ k.stage = "release" /\ k.op = call[c].op /\ k.dest = call[c].dest
          /\ k.addr = call[c].addr /\ k.run = call[c].run /\ k.overdue = call[c].overdue
    BY NextStage DEF Stages
  <2>3. Knows(k) /\ ~Holder(k) BY <1>1, <1>5, <2>2 DEF Knows, KnowsAddress, KnowsRun, Holder
  <2> QED BY <1>2, <1>5, <2>2, <2>3, LedgerTyped, CallOnly DEF Goes, To
<1> QED BY <1>3, <1>4, <1>5 DEF AskVerdict

\* The log entry of a run changes, and the request goes on, to a start only if the relayer
\* reported the failure of the run in the slot.
LEMMA ConfirmStep ==
  ASSUME Inv, NEW c \in Calls, Confirm(c)
  PROVE  Inv'
<1>1. call[c] \in CallRecords /\ Knows(call[c]) BY CallKnows
<1>2. UNCHANGED <<row, live, runs, minted, tx, sent>> BY DEF Confirm
<1>3. ledger' \in [Runs -> {"none", "SUBMITTING", "FAILED", "CONFIRMED"}]
  BY LedgerTyped DEF Confirm
<1>4. CASE Ends(c) BY <1>2, <1>3, <1>4, NoCallKnows, CallOnly DEF Ends, To
<1>5. CASE call[c].op = "withdraw" /\ Goes(c, "goon")
  <2>1. PICK k \in CallRecords :
          /\ k = [call[c] EXCEPT !.stage = "goon"]
          /\ k.stage = "goon" /\ k.op = call[c].op /\ k.dest = call[c].dest
          /\ k.addr = call[c].addr /\ k.run = call[c].run /\ k.overdue = call[c].overdue
    BY NextStage DEF Stages
  <2>2. Knows(k) /\ ~Holder(k) BY <1>1, <1>5, <2>1 DEF Knows, KnowsAddress, KnowsRun, Holder
  <2> QED BY <1>2, <1>3, <1>5, <2>1, <2>2, CallOnly DEF Goes, To
<1> QED BY <1>4, <1>5 DEF Confirm

LEMMA ReleaseStep ==
  ASSUME Inv, NEW c \in Calls, Release(c)
  PROVE  Inv'
<1>1. call[c] \in CallRecords /\ Knows(call[c]) BY CallKnows
<1>2. UNCHANGED <<row, live, runs, minted, tx, sent>> BY DEF Release
<1>3. ledger' \in [Runs -> {"none", "SUBMITTING", "FAILED", "CONFIRMED"}]
  BY LedgerTyped DEF Release
<1>4. CASE Ends(c) BY <1>2, <1>3, <1>4, NoCallKnows, CallOnly DEF Ends, To
<1>5. CASE CertainlyFailed /\ Goes(c, "fresh")
  <2>1. tx[row.run] = "failed" BY <1>5 DEF CertainlyFailed, Verdict, Inv, RowOK
  <2>2. PICK k \in CallRecords :
          /\ k = [call[c] EXCEPT !.stage = "fresh"]
          /\ k.stage = "fresh" /\ k.op = call[c].op /\ k.dest = call[c].dest
          /\ k.addr = call[c].addr /\ k.run = call[c].run /\ k.overdue = call[c].overdue
    BY NextStage DEF Stages
  <2>3. Knows(k) /\ ~Holder(k)
    BY <1>1, <2>1, <2>2 DEF Knows, KnowsAddress, KnowsRun, Holder, Release, At
  <2> QED BY <1>2, <1>3, <1>5, <2>2, <2>3, CallOnly DEF Goes, To
<1> QED BY <1>4, <1>5 DEF Release

-----------------------------------------------------------------------------
(* The row of the slot changes its state, and its run stays.                *)

\* What another request knows stays true: no one drives a run that is put back to PENDING,
\* and no one submits one that is given up.
LEMMA OthersKnow ==
  ASSUME Inv, NEW d \in Calls, call'[d] = call[d],
         UNCHANGED <<live, runs, tx, sent>>, row'.run = row.run,
         row'.state = "PENDING" /\ row.state # "PENDING" =>
            ~(Holder(call[d]) /\ call[d].run = row.run),
         row'.state = "FAILED" /\ row.state # "FAILED" =>
            ~(call[d].stage = "advance" /\ call[d].signed /\ call[d].run = row.run)
  PROVE  Knows(call[d])'
<1>1. Knows(call[d]) BY CallKnows
<1>2. KnowsAddress(call[d])' BY <1>1 DEF Knows, KnowsAddress
<1>3. KnowsRun(call[d])' BY <1>1 DEF Knows, KnowsRun, Holder
<1> QED BY <1>2, <1>3 DEF Knows

\* A step of one request that changes the state of the slot.
LEMMA SlotStep ==
  ASSUME Inv, NEW c \in Calls, NEW k \in CallRecords, call' = [call EXCEPT ![c] = k],
         UNCHANGED <<live, runs, minted, tx, sent>>, row'.run = row.run, RowOK',
         ledger' \in [Runs -> {"none", "SUBMITTING", "FAILED", "CONFIRMED"}],
         Knows(k)', Holder(k) => Holder(call[c]) /\ k.run = call[c].run,
         row'.state = "PENDING" /\ row.state # "PENDING" =>
            \A d \in Calls \ {c} : ~(Holder(call[d]) /\ call[d].run = row.run),
         row'.state = "FAILED" /\ row.state # "FAILED" =>
            \A d \in Calls \ {c} :
               ~(call[d].stage = "advance" /\ call[d].signed /\ call[d].run = row.run)
  PROVE  Inv'
<1>1. RunsOK' BY DEF Inv, RunsOK
<1>2. \A d \in Calls \ {c} : call'[d] = call[d] BY DEF Inv, CallOK
<1>3. \A d \in Calls \ {c} : Knows(call[d])' BY <1>2, OthersKnow
<1>4. Holder(k) => \A d \in Calls \ {c} : Holder(call[d]) => call[d].run # k.run
  BY DEF Inv, OneHolder
<1> QED BY <1>1, <1>3, <1>4, OneCall

LEMMA SupersedeStep ==
  ASSUME Inv, NEW c \in Calls, Supersede(c)
  PROVE  Inv'
<1>1. CASE row.state = "PENDING" /\ InRow(call[c])
  <2>1. PICK k \in CallRecords :
          /\ k = [call[c] EXCEPT !.stage = "reread"]
          /\ k.stage = "reread" /\ k.op = call[c].op /\ k.dest = call[c].dest
          /\ k.addr = call[c].addr /\ k.run = call[c].run /\ k.overdue = call[c].overdue
    BY NextStage DEF Stages
  <2>2. row' = [row EXCEPT !.state = "FAILED"] BY <1>1 DEF Supersede
  <2>3. row \in RowRecords /\ row.run \in DOMAIN runs /\ row.run \in Runs
    BY <1>1, RowNames DEF Inv, RowOK
  <2>4. /\ row' \in RowRecords /\ row'.state = "FAILED" /\ row'.run = row.run
        /\ row'.handle = row.handle /\ row'.addr = row.addr
    BY <2>2, <2>3 DEF RowRecords, States
  <2>5. UNCHANGED <<live, runs, minted, ledger, tx, sent>> BY DEF Supersede
  <2>6. tx[row.run] = "none" BY <1>1, <2>3 DEF Inv, RowOK, RunsOK
  <2>7. RowOK' BY <1>1, <2>4, <2>5, <2>6 DEF Inv, RowOK
  <2>8. Knows(k)'
    BY <2>1, <2>5, CallKnows DEF Supersede, At, Knows, KnowsAddress, KnowsRun, Holder
  <2>9. \A d \in Calls : ~(call[d].stage = "advance" /\ call[d].run = row.run)
    BY <1>1, CallKnows DEF Knows, KnowsRun
  <2>10. call' = [call EXCEPT ![c] = k] BY <1>1, <2>1 DEF Supersede, Goes, To
  <2>11. ~Holder(k) BY <2>1 DEF Holder
  <2> QED BY <2>4, <2>5, <2>7, <2>8, <2>9, <2>10, <2>11, LedgerTyped, SlotStep
<1>2. CASE ~(row.state = "PENDING" /\ InRow(call[c])) BY <1>2, EndsStep DEF Supersede
<1> QED BY <1>1, <1>2

LEMMA FactoryFailsStep ==
  ASSUME Inv, NEW c \in Calls, FactoryFails(c)
  PROVE  Inv'
<1>1. UNCHANGED <<live, runs, minted, ledger, tx, sent>> /\ Ends(c) BY DEF FactoryFails
<1>2. CASE InRow(call[c])
  <2>1. /\ call[c].run # Zero /\ sent[call[c].run] = 0 /\ call[c].run \in DOMAIN runs
        /\ Holder(call[c])
    BY CallKnows DEF FactoryFails, At, Knows, KnowsRun, Holder
  <2>2. row' = [row EXCEPT !.state = "FAILED"] /\ row.run = call[c].run
    BY <1>2 DEF FactoryFails, InRow
  <2>3. row \in RowRecords /\ row.run \in Runs BY <2>1, <2>2, RunExists DEF Inv, RowOK
  <2>4. /\ row' \in RowRecords /\ row'.state = "FAILED" /\ row'.run = row.run
        /\ row'.handle = row.handle /\ row'.addr = row.addr
    BY <2>2, <2>3 DEF RowRecords, States
  <2>5. tx[row.run] = "none" BY <2>1, <2>2, <2>3 DEF Inv, RunsOK
  <2>6. RowOK' BY <1>1, <2>1, <2>2, <2>4, <2>5 DEF Inv, RowOK
  <2>7. Knows(NoCall)'
    BY DEF NoCall, Knows, KnowsAddress, KnowsRun, Holder
  <2>8. \A d \in Calls \ {c} : ~(Holder(call[d]) /\ call[d].run = row.run)
    BY <2>1, <2>2 DEF Inv, OneHolder
  <2> QED BY <1>1, <2>4, <2>6, <2>7, <2>8, NoCallKnows, LedgerTyped, SlotStep
             DEF Ends, To, Holder
<1>3. CASE ~InRow(call[c]) BY <1>1, <1>3, EndsStep DEF FactoryFails
<1> QED BY <1>2, <1>3

LEMMA FenceStep ==
  ASSUME Inv, NEW c \in Calls, Fence(c)
  PROVE  Inv'
<1>1. CASE InRow(call[c]) /\ row.state \in {"PENDING", "SUBMITTING"}
  <2>1. PICK k \in CallRecords :
          /\ k = [call[c] EXCEPT !.stage = "advance"]
          /\ k.stage = "advance" /\ k.op = call[c].op /\ k.dest = call[c].dest
          /\ k.addr = call[c].addr /\ k.run = call[c].run /\ k.overdue = call[c].overdue
    BY NextStage DEF Stages
  <2>2. /\ call[c].run # Zero /\ sent[call[c].run] = 0 /\ call[c].run \in DOMAIN runs
        /\ call[c].run \notin live /\ Holder(call[c])
    BY CallKnows DEF Fence, At, Knows, KnowsRun, Holder
  <2>3. row' = [row EXCEPT !.state = "SUBMITTING", !.expired = FALSE] BY <1>1 DEF Fence
  <2>4. row \in RowRecords BY DEF Inv, RowOK
  <2>5. /\ row' \in RowRecords /\ row'.state = "SUBMITTING" /\ row'.run = row.run
        /\ row'.handle = row.handle /\ row'.addr = row.addr
    BY <2>3, <2>4 DEF RowRecords, States
  <2>6. UNCHANGED <<live, runs, minted, tx, sent>> BY DEF Fence
  <2>7. ledger' \in [Runs -> {"none", "SUBMITTING", "FAILED", "CONFIRMED"}]
    BY <1>1, LedgerTyped DEF Fence
  <2>8. RowOK' BY <1>1, <2>5, <2>6 DEF Inv, RowOK
  <2>9. Knows(k)'
    BY <2>1, <2>2, <2>5, <2>6, CallKnows DEF Knows, KnowsAddress, KnowsRun, Holder
  <2>10. call' = [call EXCEPT ![c] = k] BY <1>1, <2>1 DEF Fence, Goes, To
  <2> QED BY <2>1, <2>2, <2>5, <2>6, <2>7, <2>8, <2>9, <2>10, SlotStep
<1>2. CASE ~(InRow(call[c]) /\ row.state \in {"PENDING", "SUBMITTING"})
  BY <1>2, EndsStep DEF Fence
<1> QED BY <1>1, <1>2

LEMMA ParkStep ==
  ASSUME Inv, NEW c \in Calls, Park(c)
  PROVE  Inv'
<1>1. CASE InRow(call[c]) /\ row.state = "SUBMITTING"
  <2>1. /\ row.run = call[c].run /\ sent[row.run] = 0 /\ row.run \in DOMAIN runs
        /\ row.run \in Runs /\ Holder(call[c])
    BY <1>1, CallKnows, RunExists, RowNames DEF Park, At, InRow, Knows, KnowsRun, Holder
  <2>2. row' = [row EXCEPT !.state = "PENDING"] BY <1>1 DEF Park
  <2>3. row \in RowRecords BY DEF Inv, RowOK
  <2>4. /\ row' \in RowRecords /\ row'.state = "PENDING" /\ row'.run = row.run
        /\ row'.handle = row.handle /\ row'.addr = row.addr
    BY <2>2, <2>3 DEF RowRecords, States
  <2>5. UNCHANGED <<live, runs, minted, ledger, tx, sent>> BY DEF Park
  <2>6. RowOK' BY <1>1, <2>1, <2>4, <2>5 DEF Inv, RowOK
  <2>7. PICK k \in CallRecords : k = Served(call[c], row.run) /\ Knows(k) /\ ~Holder(k)
    BY <2>1, CallKnows, ServedKnows
  <2>8. k.stage \in {"idle", "sign"} BY <2>7 DEF Served, NoCall
  <2>9. Knows(k)' BY <2>5, <2>7, <2>8 DEF Knows, KnowsAddress, KnowsRun, Holder
  <2>10. \A d \in Calls \ {c} : ~(Holder(call[d]) /\ call[d].run = row.run)
    BY <2>1 DEF Inv, OneHolder
  <2>11. call' = [call EXCEPT ![c] = k] BY <1>1, <2>1, <2>7 DEF Park, To
  <2> QED BY <2>4, <2>5, <2>6, <2>7, <2>9, <2>10, <2>11, LedgerTyped, SlotStep
<1>2. CASE ~(InRow(call[c]) /\ row.state = "SUBMITTING") BY <1>2, EndsStep DEF Park
<1> QED BY <1>1, <1>2

LEMMA RecordStep ==
  ASSUME Inv, NEW c \in Calls, Record(c)
  PROVE  Inv'
<1>1. PICK k \in CallRecords :
        /\ k = [call[c] EXCEPT !.stage = "verdict"]
        /\ k.stage = "verdict" /\ k.op = call[c].op /\ k.dest = call[c].dest
        /\ k.addr = call[c].addr /\ k.run = call[c].run /\ k.overdue = call[c].overdue
  BY NextStage DEF Stages
<1>2. row' = IF InRow(call[c]) THEN [row EXCEPT !.handle = call[c].run] ELSE row
  BY DEF Record
<1>3. row \in RowRecords BY DEF Inv, RowOK
<1>4. /\ row' \in RowRecords /\ row'.state = row.state /\ row'.run = row.run
      /\ row'.addr = row.addr /\ row'.handle \in {row.handle, row.run}
  BY <1>2, <1>3 DEF RowRecords, InRow
<1>5. UNCHANGED <<live, runs, minted, ledger, tx, sent>> BY DEF Record
<1>6. RowOK' BY <1>4, <1>5 DEF Inv, RowOK
<1>7. Knows(k)' BY <1>1, <1>5, CallKnows DEF Knows, KnowsAddress, KnowsRun, Holder
<1>8. call' = [call EXCEPT ![c] = k] BY <1>1 DEF Record, Goes, To
<1>9. ~Holder(k) BY <1>1 DEF Holder
<1> QED BY <1>4, <1>5, <1>6, <1>7, <1>8, <1>9, LedgerTyped, SlotStep

LEMMA MarkDoneStep ==
  ASSUME Inv, NEW c \in Calls, MarkDone(c)
  PROVE  Inv'
<1>1. PICK k \in CallRecords :
        /\ k = [call[c] EXCEPT !.stage = "confirm"]
        /\ k.stage = "confirm" /\ k.op = call[c].op /\ k.dest = call[c].dest
        /\ k.addr = call[c].addr /\ k.run = call[c].run /\ k.overdue = call[c].overdue
  BY NextStage DEF Stages
<1>2. row.run # Zero /\ (row.run = call[c].run => tx[row.run] = "landed")
  BY CallKnows DEF MarkDone, At, Knows, KnowsRun
<1>3. row' = IF InRow(call[c]) THEN [row EXCEPT !.state = "DONE"] ELSE row
  BY DEF MarkDone
<1>4. row \in RowRecords BY DEF Inv, RowOK
<1>5. /\ row' \in RowRecords /\ row'.run = row.run /\ row'.handle = row.handle
      /\ row'.addr = row.addr
      /\ \/ row'.state = row.state
         \/ row'.state = "DONE" /\ row.run = call[c].run
  BY <1>3, <1>4 DEF RowRecords, States, InRow
<1>6. UNCHANGED <<live, runs, minted, ledger, tx, sent>> BY DEF MarkDone
<1>7. RowOK' BY <1>2, <1>5, <1>6 DEF Inv, RowOK
<1>8. Knows(k)' BY <1>1, <1>6, CallKnows DEF Knows, KnowsAddress, KnowsRun, Holder
<1>9. call' = [call EXCEPT ![c] = k] BY <1>1 DEF MarkDone, Goes, To
<1>10. ~Holder(k) BY <1>1 DEF Holder
<1> QED BY <1>5, <1>6, <1>7, <1>8, <1>9, <1>10, LedgerTyped, SlotStep

-----------------------------------------------------------------------------
(* Sessions come and go, and a run is submitted.                            *)

\* What a request knows does not depend on sessions that are gone, or on the log.
LEMMA LiveLess ==
  ASSUME Inv, NEW c \in Calls, NEW k \in CallRecords, call' = [call EXCEPT ![c] = k],
         UNCHANGED <<row, runs, minted, tx, sent>>, live' \subseteq live,
         ledger' \in [Runs -> {"none", "SUBMITTING", "FAILED", "CONFIRMED"}],
         Knows(k)', Holder(k) => \A d \in Calls \ {c} : Holder(call[d]) => call[d].run # k.run
  PROVE  Inv'
<1>1. RunsOK' /\ RowOK' BY DEF Inv, RunsOK, RowOK
<1>2. \A d \in Calls \ {c} : Knows(call[d]) => Knows(call[d])'
  <2>1. \A d \in Calls \ {c} : call'[d] = call[d] BY DEF Inv, CallOK
  <2> QED BY <2>1 DEF Knows, KnowsAddress, KnowsRun, Holder
<1> QED BY <1>1, <1>2, OneCall

\* The session whose envelope is about to expire is dropped, and the run started over.
LEMMA StartOverStep ==
  ASSUME Inv, NEW c \in Calls, At(c, "start"), row.state = "PENDING",
         live' = live \ {row.run}, UNCHANGED <<row, runs, minted, ledger, tx, sent>>,
         To(c, [call[c] EXCEPT !.run = row.run, !.from = row.state, !.stage = "fresh"])
  PROVE  Inv'
<1> DEFINE q == [call[c] EXCEPT !.run = row.run, !.from = row.state, !.stage = "fresh"]
<1>1. call[c] \in CallRecords /\ KnowsAddress(call[c]) BY CallKnows DEF Knows
<1>2. /\ q \in CallRecords /\ q.stage = "fresh" /\ q.run = row.run /\ q.from = "PENDING"
      /\ q.addr = call[c].addr /\ q.op = call[c].op /\ q.dest = call[c].dest
  BY <1>1 DEF CallRecords, Stages, States, Inv, RowOK, RowRecords
<1>3. PICK k \in CallRecords : k = q BY <1>2
<1>4. k.addr \in Addresses /\ (k.op = "withdraw" => k.dest \in Dests)
  BY <1>1, <1>2, <1>3 DEF At, KnowsAddress
<1>5. Knows(k)' /\ ~Holder(k)
  <2>1. KnowsAddress(k)' BY <1>2, <1>3, <1>4 DEF KnowsAddress
  <2>2. KnowsRun(k)' /\ ~Holder(k) BY <1>2, <1>3 DEF KnowsRun, Holder, Inv, RowOK
  <2> QED BY <2>1, <2>2 DEF Knows
<1>6. call' = [call EXCEPT ![c] = k] BY <1>3 DEF To
<1> QED BY <1>3, <1>5, <1>6, LedgerTyped, LiveLess

\* The answer takes the session, or starts the run over, or finds that it is not its run.
LEMMA AnswerStep ==
  ASSUME Inv, NEW c \in Calls, Answer(c)
  PROVE  Inv'
<1>1. call[c] \in CallRecords /\ Knows(call[c]) BY CallKnows
<1>2. UNCHANGED <<row, runs, minted, ledger, tx, sent>> BY DEF Answer
<1>3. CASE row.state # "PENDING" \/ ~InRow(call[c])
  BY <1>2, <1>3, EndsStep DEF Answer
<1>4. CASE row.state = "PENDING" /\ InRow(call[c]) /\ call[c].run \notin live
  <2> DEFINE q == [call[c] EXCEPT !.from = row.state]
  <2>1. UNCHANGED live /\ To(c, [call[c] EXCEPT !.stage = "fresh", !.from = row.state])
    BY <1>4 DEF Answer
  <2>2. /\ q \in CallRecords /\ q.run = row.run /\ q.from = row.state /\ q.op = call[c].op
        /\ q.dest = call[c].dest /\ q.addr = call[c].addr /\ q.overdue = call[c].overdue
    BY <1>1, <1>4 DEF CallRecords, States, InRow
  <2>3. [call[c] EXCEPT !.stage = "fresh", !.from = row.state] = [q EXCEPT !.stage = "fresh"]
    BY <1>1 DEF CallRecords
  <2>4. call' = [call EXCEPT ![c] = [q EXCEPT !.stage = "fresh"]] BY <2>1, <2>3 DEF To
  <2>5. q.addr \in Addresses /\ (q.op = "withdraw" => q.dest \in Dests)
    BY <1>1, <2>2 DEF Answer, At, Knows, KnowsAddress
  <2> HIDE DEF q
  <2> QED BY <1>2, <1>4, <2>1, <2>2, <2>4, <2>5, ReadStep DEF Stages
<1>5. CASE row.state = "PENDING" /\ InRow(call[c]) /\ call[c].run \in live
  <2> DEFINE q == [Driving(call[c], call[c].run) EXCEPT !.signed = TRUE]
  <2>1. To(c, q) /\ live' = live \ {call[c].run} BY <1>5 DEF Answer, Consume
  <2>2. /\ call[c].run \in DOMAIN runs /\ call[c].run \in Runs /\ call[c].run # Zero
        /\ sent[call[c].run] = 0 /\ row.run = call[c].run
    BY <1>5, RunExists DEF Inv, RunsOK, RowOK, InRow
  <2>3. /\ q \in CallRecords /\ q.stage = "fence" /\ q.op = "run" /\ q.run = call[c].run
        /\ q.overdue = FALSE
    BY <1>1, <2>2 DEF Driving, NoCall, CallRecords, Ops, Stages, States
  <2>4. PICK k \in CallRecords : k = q BY <2>3
  <2>5. KnowsAddress(k)' BY <2>3, <2>4 DEF KnowsAddress
  <2>6. KnowsRun(k)' BY <1>2, <2>1, <2>2, <2>3, <2>4 DEF KnowsRun, Holder
  <2>7. \A d \in Calls \ {c} : Holder(call[d]) => call[d].run # k.run
    BY <1>5, <2>2, <2>3, <2>4, CallKnows DEF Knows, KnowsRun, Holder
  <2>8. call' = [call EXCEPT ![c] = k] BY <2>1, <2>4 DEF To
  <2> QED BY <1>2, <2>1, <2>4, <2>5, <2>6, <2>7, <2>8, LedgerTyped, LiveLess DEF Knows
<1> QED BY <1>3, <1>4, <1>5

LEMMA PrepareStep ==
  ASSUME Inv, NEW c \in Calls, Prepare(c)
  PROVE  Inv'
<1>1. PICK k \in CallRecords :
        /\ k = [call[c] EXCEPT !.stage = "park"]
        /\ k.stage = "park" /\ k.op = call[c].op /\ k.dest = call[c].dest
        /\ k.addr = call[c].addr /\ k.run = call[c].run /\ k.overdue = call[c].overdue
  BY NextStage DEF Stages
<1>2. /\ Holder(call[c]) /\ call[c].run # Zero /\ sent[call[c].run] = 0
      /\ call[c].run \in DOMAIN runs /\ call[c].run \in Runs
  BY CallKnows, RunExists DEF Prepare, At, Knows, KnowsRun, Holder
<1>3. UNCHANGED <<row, runs, minted, ledger, tx, sent>> /\ live' = live \cup {call[c].run}
  BY DEF Prepare
<1>4. RunsOK' /\ RowOK' BY <1>2, <1>3 DEF Inv, RunsOK, RowOK
<1>5. Knows(k)' BY <1>1, <1>2, <1>3, CallKnows DEF Prepare, At, Knows, KnowsAddress, KnowsRun, Holder
<1>6. \A d \in Calls \ {c} : Holder(call[d]) => call[d].run # call[c].run
  BY <1>2 DEF Inv, OneHolder
<1>7. \A d \in Calls \ {c} : Knows(call[d])'
  <2>1. \A d \in Calls \ {c} : call'[d] = call[d] BY DEF Prepare, Goes, To, Inv, CallOK
  <2> QED BY <1>3, <1>6, <2>1, CallKnows DEF Knows, KnowsAddress, KnowsRun, Holder
<1>8. call' = [call EXCEPT ![c] = k] BY <1>1 DEF Prepare, Goes, To
<1>9. \A d \in Calls \ {c} : Holder(call[d]) => call[d].run # k.run BY <1>1, <1>6
<1> QED BY <1>4, <1>5, <1>7, <1>8, <1>9, OneCall

\* What handing a run to the relayer changes: only the run a holder drove, and never one
\* in a state that says it was not sent.
LEMMA HandOK ==
  ASSUME Inv, NEW c \in Calls, At(c, "advance"), call[c].signed, Hand(call[c].run),
         UNCHANGED <<row, runs, minted>>, live' \subseteq live,
         ledger' \in [Runs -> {"none", "SUBMITTING", "FAILED", "CONFIRMED"}],
         \A d \in Calls \ {c} : call'[d] = call[d]
  PROVE  RunsOK' /\ RowOK' /\ \A d \in Calls \ {c} : Knows(call[d])'
<1> DEFINE r == call[c].run
<1>1. /\ Holder(call[c]) /\ r # Zero /\ sent[r] = 0 /\ r \in DOMAIN runs /\ r \in Runs
      /\ r \notin live /\ tx[r] = "none"
      /\ row.run = r => row.state # "PENDING" /\ row.state # "FAILED"
  BY CallKnows, RunExists DEF At, Knows, KnowsRun, Holder, Inv, RunsOK
<1>2. tx' = [tx EXCEPT ![r] = "queued"] /\ sent' = [sent EXCEPT ![r] = 1]
  BY <1>1 DEF Hand, Inv, RunsOK
<1>3. /\ tx \in [Runs -> {"none", "queued", "landed", "failed"}] /\ sent \in [Runs -> 0..1]
      /\ \A q \in Runs : sent[q] = 0 <=> tx[q] = "none"
  BY DEF Inv, RunsOK
<1>4. RunsOK'
  <2>1. tx' \in [Runs -> {"none", "queued", "landed", "failed"}] /\ sent' \in [Runs -> 0..1]
    BY <1>1, <1>2, <1>3
  <2>2. \A q \in Runs : sent'[q] = 0 <=> tx'[q] = "none" BY <1>1, <1>2, <1>3
  <2>3. \A q \in Runs : q \in live' \/ q \notin DOMAIN runs' => sent'[q] = 0
    BY <1>1, <1>2, <1>3 DEF Inv, RunsOK
  <2> QED BY <2>1, <2>2, <2>3 DEF Inv, RunsOK
<1>5. RowOK'
  <2>1. CASE row.run = r BY <1>1, <1>2, <1>3, <2>1 DEF Inv, RowOK
  <2>2. CASE row.run # r
    <3>1. row.run \in Runs => tx'[row.run] = tx[row.run] /\ sent'[row.run] = sent[row.run]
      BY <1>2, <1>3, <2>2
    <3>2. row.state # "none" => row.run \in Runs BY RowNames
    <3> QED BY <3>1, <3>2 DEF Inv, RowOK
  <2> QED BY <2>1, <2>2
<1>6. ASSUME NEW d \in Calls \ {c} PROVE Knows(call[d])'
  <2>1. Knows(call[d]) /\ call'[d] = call[d] BY CallKnows
  <2>2. KnowsAddress(call[d])' BY <2>1 DEF Knows, KnowsAddress
  <2>3. Holder(call[d]) => call[d].run # r BY <1>1 DEF Inv, OneHolder
  <2>4. Holder(call[d]) => sent'[call[d].run] = 0
    BY <1>2, <1>3, <2>1, <2>3, RunExists DEF Knows, KnowsRun
  <2>5. row.run # Zero => row.run \in Runs BY RowNames DEF Inv, RowOK
  <2>6. row.run # Zero /\ tx[row.run] \in {"landed", "failed"} => tx'[row.run] = tx[row.run]
    BY <1>1, <1>2, <1>3, <2>5
  <2>7. KnowsRun(call[d])' BY <2>1, <2>4, <2>6 DEF Knows, KnowsRun, Holder
  <2> QED BY <2>2, <2>7 DEF Knows
<1> QED BY <1>4, <1>5, <1>6

LEMMA SubmitStep ==
  ASSUME Inv, NEW c \in Calls, Submit(c)
  PROVE  Inv'
<1>1. PICK k \in CallRecords :
        /\ k = [call[c] EXCEPT !.stage = "record"]
        /\ k.stage = "record" /\ k.op = call[c].op /\ k.dest = call[c].dest
        /\ k.addr = call[c].addr /\ k.run = call[c].run /\ k.overdue = call[c].overdue
  BY NextStage DEF Stages
<1>2. call' = [call EXCEPT ![c] = k] BY <1>1 DEF Submit, Goes, To
<1>3. \A d \in Calls \ {c} : call'[d] = call[d] BY <1>2 DEF Inv, CallOK
<1>4. RunsOK' /\ RowOK' /\ \A d \in Calls \ {c} : Knows(call[d])'
  BY <1>3, LedgerTyped, HandOK DEF Submit
<1>5. Knows(k)' /\ ~Holder(k)
  BY <1>1, CallKnows DEF Submit, At, Knows, KnowsAddress, KnowsRun, Holder
<1> QED BY <1>1, <1>2, <1>4, <1>5, OneCall

LEMMA ThrowsStep ==
  ASSUME Inv, NEW c \in Calls, Throws(c)
  PROVE  Inv'
<1>1. /\ At(c, "advance") /\ live' \subseteq live /\ UNCHANGED <<row, runs, minted>>
      /\ call' = [call EXCEPT ![c] = NoCall]
  BY DEF Throws, Ends, To
<1>2. ledger' \in [Runs -> {"none", "SUBMITTING", "FAILED", "CONFIRMED"}]
  BY LedgerTyped DEF Throws
<1>3. Knows(NoCall)' /\ ~Holder(NoCall)
  BY NoCallKnows DEF NoCall, Knows, KnowsAddress, KnowsRun, Holder
<1>4. CASE call[c].signed /\ Hand(call[c].run)
  <2>1. \A d \in Calls \ {c} : call'[d] = call[d] BY <1>1 DEF Inv, CallOK
  <2>2. RunsOK' /\ RowOK' /\ \A d \in Calls \ {c} : Knows(call[d])'
    BY <1>1, <1>2, <1>4, <2>1, HandOK
  <2> QED BY <1>1, <1>3, <2>2, NoCallKnows, OneCall
<1>5. CASE UNCHANGED <<tx, sent>> BY <1>1, <1>2, <1>3, <1>5, NoCallKnows, LiveLess
<1> QED BY <1>4, <1>5 DEF Throws

-----------------------------------------------------------------------------
(* A forwarder is minted, a run is started.                                 *)

\* Runs and forwarders are numbered without gaps.
LEMMA Numbered ==
  ASSUME Inv
  PROVE  \E n \in 0..MaxRuns, m \in 0..MaxMints :
           /\ runs \in [1..n -> Addresses] /\ Cardinality(DOMAIN runs) = n
           /\ minted \in [1..m -> Dests] /\ Cardinality(DOMAIN minted) = m
<1>1. PICK n \in 0..MaxRuns : runs \in [1..n -> Addresses] BY DEF Inv, RunsOK
<1>2. PICK m \in 0..MaxMints : minted \in [1..m -> Dests] BY DEF Inv, RunsOK
<1>3. n \in Nat /\ m \in Nat BY WithdrawAssumption
<1>4. Cardinality(1..n) = n /\ Cardinality(1..m) = m BY <1>3, FS_Interval
<1>5. DOMAIN runs = 1..n /\ DOMAIN minted = 1..m BY <1>1, <1>2
<1> QED BY <1>1, <1>2, <1>4, <1>5

LEMMA MintStep ==
  ASSUME Inv, NEW c \in Calls, Mint(c)
  PROVE  Inv'
<1>1. PICK n \in 0..MaxRuns, m \in 0..MaxMints :
        /\ runs \in [1..n -> Addresses] /\ Cardinality(DOMAIN runs) = n
        /\ minted \in [1..m -> Dests] /\ Cardinality(DOMAIN minted) = m
  BY Numbered
<1> DEFINE a == m + 1
<1> DEFINE q == [call[c] EXCEPT !.stage = "start", !.addr = a, !.want = a]
<1>2. call[c] \in CallRecords /\ call[c].op = "withdraw" /\ call[c].dest \in Dests
  BY CallKnows DEF Mint, At, Knows, KnowsAddress
<1>3. m < MaxMints /\ MaxMints \in Nat BY <1>1, WithdrawAssumption DEF Mint
<1>4. a \in Addresses /\ a \in 0..MaxMints BY <1>3 DEF Addresses
<1>5. minted' = [b \in DOMAIN minted \cup {a} |-> IF b = a THEN call[c].dest ELSE minted[b]]
  BY <1>1 DEF Mint
<1>6. DOMAIN minted \cup {a} = 1..a BY <1>1, <1>3
<1>7. minted' \in [1..a -> Dests] BY <1>1, <1>2, <1>5, <1>6
<1>8. UNCHANGED <<row, live, runs, ledger, tx, sent>> BY DEF Mint
<1>9. RunsOK' /\ RowOK' BY <1>4, <1>7, <1>8 DEF Inv, RunsOK, RowOK
<1>10. /\ q \in CallRecords /\ q.stage = "start" /\ q.addr = a /\ q.op = call[c].op
       /\ q.dest = call[c].dest /\ q.run = call[c].run
  BY <1>2, <1>4 DEF CallRecords, Stages
<1>11. PICK k \in CallRecords : k = q BY <1>10
<1>12. Knows(k)' /\ ~Holder(k)
  BY <1>2, <1>4, <1>8, <1>10, <1>11, CallKnows DEF Knows, KnowsAddress, KnowsRun, Holder
<1>13. call' = [call EXCEPT ![c] = k] BY <1>1, <1>11 DEF Mint, To
<1>14. \A d \in Calls \ {c} : Knows(call[d])'
  <2>1. \A d \in Calls \ {c} : call'[d] = call[d] BY <1>13 DEF Inv, CallOK
  <2> QED BY <1>8, <2>1, CallKnows DEF Knows, KnowsAddress, KnowsRun, Holder
<1> QED BY <1>9, <1>12, <1>13, <1>14, OneCall

\* The new run is one no request, session or row has heard of.
LEMMA FreshStep ==
  ASSUME Inv, NEW c \in Calls, Fresh(c)
  PROVE  Inv'
<1>1. CASE Unmoved(call[c])
  <2>1. PICK n \in 0..MaxRuns, m \in 0..MaxMints :
          /\ runs \in [1..n -> Addresses] /\ Cardinality(DOMAIN runs) = n
          /\ minted \in [1..m -> Dests] /\ Cardinality(DOMAIN minted) = m
    BY Numbered
  <2> DEFINE r == n + 1
  <2> DEFINE q == Driving(call[c], r)
  <2>2. call[c] \in CallRecords /\ call[c].addr \in Addresses
    BY CallKnows DEF Fresh, At, Knows, KnowsAddress
  <2>3. r \in Runs BY <1>1, <2>1 DEF Fresh
  <2>4. n \in Nat /\ r \in 0..MaxRuns /\ r # Zero BY <2>3, WithdrawAssumption DEF Runs, Zero
  <2>5. runs' = [p \in DOMAIN runs \cup {r} |-> IF p = r THEN call[c].addr ELSE runs[p]]
    BY <1>1, <2>1 DEF Fresh
  <2>6. DOMAIN runs = 1..n /\ DOMAIN runs \cup {r} = 1..r BY <2>1, <2>4
  <2>7. runs' \in [1..r -> Addresses] BY <2>1, <2>2, <2>5, <2>6
  <2>8. UNCHANGED <<live, minted, ledger, tx, sent>> BY DEF Fresh
  <2>9. r \notin DOMAIN runs /\ r \notin live /\ sent[r] = 0
    BY <2>3, <2>4, <2>6 DEF Inv, RunsOK
  <2>10. DOMAIN runs' = DOMAIN runs \cup {r} BY <2>5
  <2>11. RunsOK' BY <2>4, <2>7, <2>8, <2>10 DEF Inv, RunsOK
  <2>12. row' = [state |-> "PENDING", run |-> r, handle |-> Zero, addr |-> call[c].addr,
                 expired |-> FALSE]
    BY <1>1, <2>1 DEF Fresh
  <2>13. RowOK' BY <2>2, <2>3, <2>4, <2>8, <2>9, <2>10, <2>12 DEF RowOK, RowRecords, States
  <2>14. /\ q \in CallRecords /\ q.stage = "fence" /\ q.op = "run" /\ q.run = r
         /\ q.overdue = FALSE
    <3>1. NoCall \in CallRecords /\ NoCall.overdue = FALSE
      BY DEF NoCall, CallRecords, Ops, Stages, States
    <3>2. call[c].want \in Addresses \cup {Zero}
      <4>1. call[c] \in CallRecords BY CallKnows
      <4> QED BY <4>1 DEF CallRecords
    <3>3. "run" \in Ops /\ "fence" \in Stages /\ r \in Runs \cup {Zero}
      BY <2>3 DEF Ops, Stages
    <3>4. q = [NoCall EXCEPT !.op = "run", !.stage = "fence", !.want = call[c].want, !.run = r]
      BY DEF Driving
    <3> HIDE DEF q
    <3> QED BY <3>1, <3>2, <3>3, <3>4 DEF CallRecords
  <2>15. PICK k \in CallRecords : k = q BY <2>14
  <2>16. Knows(k)'
    BY <2>4, <2>8, <2>9, <2>10, <2>14, <2>15 DEF Knows, KnowsAddress, KnowsRun, Holder
  <2>17. call' = [call EXCEPT ![c] = k] BY <1>1, <2>1, <2>15 DEF Fresh, To
  <2>18. \A d \in Calls \ {c} : call[d].run # r BY <2>4, <2>9, CallKnows DEF Knows, KnowsRun
  <2>19. \A d \in Calls \ {c} : Knows(call[d])'
    <3>1. row'.run = r BY <2>12
    <3>2. \A d \in Calls \ {c} : call'[d] = call[d] BY <2>17 DEF Inv, CallOK
    <3> QED BY <2>4, <2>8, <2>10, <2>18, <3>1, <3>2, CallKnows
            DEF Knows, KnowsAddress, KnowsRun, Holder
  <2>20. \A d \in Calls \ {c} : Holder(call[d]) => call[d].run # k.run
    BY <2>14, <2>15, <2>18
  <2> QED BY <2>11, <2>13, <2>16, <2>17, <2>19, <2>20, OneCall
<1>2. CASE ~Unmoved(call[c]) BY <1>2, EndsStep DEF Fresh
<1> QED BY <1>1, <1>2

-----------------------------------------------------------------------------
(* Time, the relayer, restarts and the operator.                            *)

LEMMA ExpiresStep ==
  ASSUME Inv, Expires
  PROVE  Inv'
<1>1. row \in RowRecords BY DEF Inv, RowOK
<1>2. /\ row' \in RowRecords /\ row'.state = row.state /\ row'.run = row.run
      /\ row'.handle = row.handle /\ row'.addr = row.addr
  BY <1>1 DEF Expires, RowRecords
<1>3. UNCHANGED <<live, runs, minted, ledger, tx, sent, call>> BY DEF Expires
<1>4. RunsOK' /\ RowOK' BY <1>2, <1>3 DEF Inv, RunsOK, RowOK
<1>5. \A d \in Calls : Knows(call[d])' BY <1>2, <1>3, OthersKnow
<1>6. CallOK' /\ OneHolder' BY <1>3, <1>5 DEF Inv, CallOK, OneHolder
<1> QED BY <1>4, <1>6 DEF Inv

LEMMA RelayerSettlesStep ==
  ASSUME Inv, NEW r \in Runs, RelayerSettles(r)
  PROVE  Inv'
<1>1. UNCHANGED <<row, live, runs, minted, ledger, sent, call>> /\ tx[r] = "queued"
  BY DEF RelayerSettles
<1>2. PICK v \in {"landed", "failed"} : tx' = [tx EXCEPT ![r] = v] BY DEF RelayerSettles
<1>3. tx \in [Runs -> {"none", "queued", "landed", "failed"}] BY DEF Inv, RunsOK
<1>4. tx' \in [Runs -> {"none", "queued", "landed", "failed"}]
      /\ \A p \in Runs : tx[p] # "queued" => tx'[p] = tx[p]
  BY <1>1, <1>2, <1>3
<1>5. \A p \in Runs : tx[p] = "none" <=> tx'[p] = "none" BY <1>1, <1>2, <1>3
<1>6. RunsOK' BY <1>1, <1>4, <1>5 DEF Inv, RunsOK
<1>7. row.state # "none" => row.run \in Runs BY RowNames
<1>8. RowOK' BY <1>1, <1>4, <1>7 DEF Inv, RowOK
<1>9. \A d \in Calls : Knows(call[d])'
  <2>1. row.run # Zero => row.run \in Runs BY <1>7 DEF Inv, RowOK
  <2>2. row.run # Zero /\ tx[row.run] \in {"landed", "failed"} => tx'[row.run] = tx[row.run]
    BY <1>4, <2>1
  <2> QED BY <1>1, <2>2, CallKnows DEF Knows, KnowsAddress, KnowsRun, Holder
<1>10. CallOK' /\ OneHolder' BY <1>1, <1>9 DEF Inv, CallOK, OneHolder
<1> QED BY <1>6, <1>8, <1>10 DEF Inv

LEMMA SessionLostStep ==
  ASSUME Inv, NEW r \in Runs, SessionLost(r)
  PROVE  Inv'
<1>1. UNCHANGED <<row, runs, minted, ledger, tx, sent, call>> /\ live' \subseteq live
  BY DEF SessionLost
<1>2. RunsOK' /\ RowOK' BY <1>1 DEF Inv, RunsOK, RowOK
<1>3. \A d \in Calls : Knows(call[d])'
  BY <1>1, CallKnows DEF Knows, KnowsAddress, KnowsRun, Holder
<1>4. CallOK' /\ OneHolder' BY <1>1, <1>3 DEF Inv, CallOK, OneHolder
<1> QED BY <1>2, <1>4 DEF Inv

LEMMA RestartStep ==
  ASSUME Inv, Restart
  PROVE  Inv'
<1>1. UNCHANGED <<row, runs, minted, ledger, tx, sent>> /\ live' = {} BY DEF Restart
<1>2. /\ call' \in [Calls -> CallRecords]
      /\ \A d \in Calls : call'[d] = NoCall \/ call'[d] = call[d]
  BY NoCallKnows, CallKnows DEF Restart
<1>3. RunsOK' /\ RowOK' BY <1>1 DEF Inv, RunsOK, RowOK
<1>4. ASSUME NEW d \in Calls PROVE Knows(call[d])'
  <2>1. CASE call'[d] = NoCall
    BY <1>1, <2>1 DEF NoCall, Knows, KnowsAddress, KnowsRun, Holder
  <2>2. CASE call'[d] = call[d]
    BY <1>1, <2>2, CallKnows DEF Knows, KnowsAddress, KnowsRun, Holder
  <2> QED BY <1>2, <2>1, <2>2
<1>5. OneHolder' BY <1>2, NoCallKnows DEF Inv, OneHolder, Holder
<1> QED BY <1>2, <1>3, <1>4, <1>5 DEF Inv, CallOK

LEMMA ResolveStep ==
  ASSUME Inv, Resolve
  PROVE  Inv'
<1>1. row \in RowRecords /\ row.run \in Runs /\ row.run \in DOMAIN runs
  BY RowNames DEF Resolve, Inv, RowOK
<1>2. UNCHANGED <<live, runs, minted, tx, sent, call>> BY DEF Resolve
<1>3. /\ row' \in RowRecords /\ row'.run = row.run /\ row'.handle = row.handle
      /\ row'.addr = row.addr
      /\ \/ row'.state = "DONE" /\ tx[row.run] = "landed"
         \/ row'.state = "FAILED" /\ tx[row.run] \in {"none", "failed"}
  BY <1>1 DEF Resolve, RowRecords, States
<1>4. ledger' \in [Runs -> {"none", "SUBMITTING", "FAILED", "CONFIRMED"}]
  BY LedgerTyped DEF Resolve
<1>5. RunsOK' BY <1>2, <1>4 DEF Inv, RunsOK
<1>6. RowOK' BY <1>1, <1>2, <1>3 DEF Resolve, Inv, RowOK
<1>7. \A d \in Calls : ~(call[d].stage = "advance" /\ call[d].run = row.run)
  BY DEF Resolve, Advancing
<1>8. \A d \in Calls : Knows(call[d])' BY <1>2, <1>3, <1>7, OthersKnow
<1>9. CallOK' /\ OneHolder' BY <1>2, <1>8 DEF Inv, CallOK, OneHolder
<1> QED BY <1>5, <1>6, <1>9 DEF Inv

-----------------------------------------------------------------------------
(* The invariant.                                                           *)

LEMMA InitInv ==
  ASSUME Init
  PROVE  Inv
<1>1. CallOK
  <2>1. \A c \in Calls : call[c] = NoCall BY DEF Init
  <2> QED BY <2>1, NoCallKnows DEF Init, CallOK
<1>2. OneHolder BY NoCallKnows DEF Init, OneHolder
<1>3. RunsOK
  <2>1. 0 \in 0..MaxRuns /\ 0 \in 0..MaxMints /\ 1..0 = {} BY WithdrawAssumption
  <2>2. runs \in [1..0 -> Addresses] /\ minted \in [1..0 -> Dests] BY <2>1 DEF Init
  <2>3. \A r \in Runs : sent[r] = 0 /\ tx[r] = "none" BY DEF Init
  <2>4. /\ ledger \in [Runs -> {"none", "SUBMITTING", "FAILED", "CONFIRMED"}]
        /\ tx \in [Runs -> {"none", "queued", "landed", "failed"}]
        /\ sent \in [Runs -> 0..1] /\ live = {}
    BY DEF Init
  <2> QED BY <2>1, <2>2, <2>3, <2>4 DEF RunsOK
<1>4. RowOK BY DEF Init, NoRow, RowOK, RowRecords, States
<1> QED BY <1>1, <1>2, <1>3, <1>4 DEF Inv

LEMMA RouteInv ==
  ASSUME Inv, NEW c \in Calls, Route(c)
  PROVE  Inv'
  BY WithdrawReadStep, SupersedeStep, RereadStep, GoOnStep, MintStep, DriveReadStep, DeviceStep,
     AnswerStep, CardPollsStep
     DEF Route

LEMMA EngineInv ==
  ASSUME Inv, NEW c \in Calls, Engine(c)
  PROVE  Inv'
<1>1. CASE StartRead(c)
  <2>1. CASE UNCHANGED live BY <1>1, <2>1, StartReadStep
  <2>2. CASE live' # live
    <3>1. /\ At(c, "start") /\ row.state = "PENDING" /\ live' = live \ {row.run}
          /\ UNCHANGED <<row, runs, minted, ledger, tx, sent>>
          /\ To(c, [[call[c] EXCEPT !.run = row.run, !.from = row.state] EXCEPT !.stage = "fresh"])
      BY <1>1, <2>2 DEF StartRead
    <3>2. [[call[c] EXCEPT !.run = row.run, !.from = row.state] EXCEPT !.stage = "fresh"]
            = [call[c] EXCEPT !.run = row.run, !.from = row.state, !.stage = "fresh"]
      BY CallKnows DEF CallRecords
    <3> QED BY <3>1, <3>2, StartOverStep
  <2> QED BY <2>1, <2>2
<1>2. CASE ~StartRead(c)
  BY <1>2, FreshStep, FactoryFailsStep, FenceStep, PrepareStep, ParkStep, SubmitStep, ThrowsStep,
     RecordStep, AskVerdictStep, MarkDoneStep, ConfirmStep, ReleaseStep
     DEF Engine
<1> QED BY <1>1, <1>2

LEMMA NextInv ==
  ASSUME Inv, [Next]_vars
  PROVE  Inv'
<1>1. CASE Next
  BY <1>1, RouteInv, EngineInv, RelayerSettlesStep, SessionLostStep, ExpiresStep, RestartStep,
     ResolveStep
     DEF Next
<1>2. CASE UNCHANGED vars
  BY <1>2 DEF vars, Inv, CallOK, OneHolder, RunsOK, RowOK, Holder, Knows, KnowsAddress, KnowsRun
<1> QED BY <1>1, <1>2

LEMMA InvHolds == Spec => []Inv
<1>1. Init => Inv BY InitInv
<1>2. Inv /\ [Next]_vars => Inv' BY NextInv
<1> QED BY <1>1, <1>2, PTL DEF Spec

-----------------------------------------------------------------------------
(* The properties.                                                          *)

\* Every variable keeps its type: runs and forwarders are numbered in the order they were
\* started and minted, a session belongs to a run that was started, and the relayer id the
\* row holds is that of the run in it.
THEOREM WithdrawalTypes == Spec => []TypeOK
<1>1. Inv => TypeOK
  <2> SUFFICES ASSUME Inv PROVE TypeOK OBVIOUS
  <2>1. PICK n \in 0..MaxRuns, m \in 0..MaxMints :
          /\ runs \in [1..n -> Addresses] /\ Cardinality(DOMAIN runs) = n
          /\ minted \in [1..m -> Dests] /\ Cardinality(DOMAIN minted) = m
    BY Numbered
  <2>2. /\ runs \in [1..Cardinality(DOMAIN runs) -> Addresses]
        /\ minted \in [1..Cardinality(DOMAIN minted) -> Dests]
    BY <2>1
  <2> QED BY <2>2 DEF Inv, RunsOK, RowOK, RowRecords, TypeOK
<1> QED BY <1>1, InvHolds, PTL

\* The card reads "Sent" only if the money of the run in the slot moved, though the verdict
\* may have been that of a run which took the slot meanwhile.
THEOREM SentMeansLanded == Spec => []DoneMeansLanded
<1>1. Inv => DoneMeansLanded BY DEF Inv, RowOK, DoneMeansLanded
<1> QED BY <1>1, InvHolds, PTL

\* However many requests, answers, restarts and throws there are, the relayer is handed the
\* transfer of a run at most once.
THEOREM OnePaymentPerRun == Spec => []OneSubmissionPerRun
<1>1. Inv => OneSubmissionPerRun BY DEF Inv, RunsOK, OneSubmissionPerRun
<1> QED BY <1>1, InvHolds, PTL

\* Only a fresh start changes the run in the slot.
LEMMA RunStays ==
  ASSUME Inv, Next, row'.run # row.run
  PROVE  \E c \in Calls : Fresh(c)
<1>1. row \in RowRecords BY DEF Inv, RowOK
<1>2. ASSUME NEW c \in Calls, Route(c) PROVE row'.run = row.run
  BY <1>1, <1>2 DEF RowRecords, Route, WithdrawRead, Supersede, Reread, GoOn, Mint, MintFails,
     DriveRead, DeviceSigns, DeviceLeaves, AnswerRoute, Answer, CardPolls
<1>3. ASSUME NEW c \in Calls, Engine(c), ~Fresh(c) PROVE row'.run = row.run
  <2>1. CASE FactoryFails(c) \/ Fence(c) \/ Park(c) \/ Record(c) \/ MarkDone(c)
    BY <1>1, <2>1 DEF RowRecords, FactoryFails, Fence, Park, Record, MarkDone
  <2>2. CASE \/ StartRead(c) \/ Prepare(c) \/ Submit(c) \/ Throws(c) \/ AskVerdict(c)
             \/ Confirm(c) \/ Release(c)
    BY <2>2 DEF StartRead, Prepare, Submit, Throws, AskVerdict, Confirm, Release
  <2> QED BY <1>3, <2>1, <2>2 DEF Engine
<1>4. CASE \/ \E r \in Runs : RelayerSettles(r) \/ SessionLost(r)
           \/ Expires \/ Restart \/ Resolve
  BY <1>1, <1>4 DEF RowRecords, RelayerSettles, SessionLost, Expires, Restart, Resolve
<1> QED BY <1>2, <1>3, <1>4 DEF Next

\* No withdrawal is replaced while its transfer is out or can still go out, nor after it
\* landed without the row saying so: nothing is paid behind the run in the slot.
THEOREM NothingPaidTwice == Spec => ReplacedOnlySettled
<1>1. Inv /\ [Next]_vars => [row'.run # row.run /\ row.run # Zero => Settled(row.run)]_vars
  <2> SUFFICES ASSUME Inv, Next, row'.run # row.run, row.run # Zero
               PROVE  Settled(row.run)
    OBVIOUS
  <2>1. PICK c \in Calls : Fresh(c) BY RunStays
  <2>2. /\ At(c, "fresh") /\ row.run = call[c].run /\ row.state = call[c].from
    BY <2>1 DEF Fresh, Unmoved
  <2>3. /\ row.run \in Runs /\ row.state # "none" /\ row.state \in States
        /\ tx[row.run] \in {"none", "queued", "landed", "failed"}
    BY RowNames DEF Inv, RowOK, RunsOK, RowRecords
  <2>4. \A d \in Calls :
          At(d, "advance") /\ call[d].run = row.run /\ call[d].signed =>
             /\ sent[row.run] = 0 /\ row.state \in {"SUBMITTING", "DONE"}
    BY <2>3, CallKnows DEF At, Knows, KnowsRun, Holder, States
  <2>5. sent[row.run] = 0 <=> tx[row.run] = "none" BY <2>3 DEF Inv, RunsOK
  <2>6. row.state = "SUBMITTING" => tx[row.run] = "failed"
    BY <2>2, CallKnows DEF At, Knows, KnowsRun
  <2>7. row.state = "PENDING" => tx[row.run] = "none" BY <2>5 DEF Inv, RowOK
  <2>8. /\ row.state = "FAILED" => tx[row.run] \in {"none", "failed"}
        /\ row.state = "DONE" => tx[row.run] = "landed"
    BY DEF Inv, RowOK
  <2> QED BY <2>3, <2>4, <2>5, <2>6, <2>7, <2>8 DEF Settled, CanStillGo, States
<1> QED BY <1>1, InvHolds, PTL DEF Spec, ReplacedOnlySettled

=============================================================================
