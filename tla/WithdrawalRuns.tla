---------------------------- MODULE WithdrawalRuns ----------------------------
(***************************************************************************)
(* The signature relay of src/src/lib/workflow.ts as it moves money out:   *)
(* the BRIDGE_OUT runs of one user, started by POST /api/real/withdraw and *)
(* answered through POST /api/real/workflow.                               *)
(*                                                                         *)
(* One wallet_workflows row is the slot.  A run holds it from the moment   *)
(* it is created; its generator lives in the server's memory while the     *)
(* device signs; the row is SUBMITTING before every advance of it, because *)
(* any advance may reach the relayer.  A submission cannot be recalled and *)
(* a second one is a second payment, so a run that went out is only ever   *)
(* closed on the relayer's own verdict or by an operator.                  *)
(*                                                                         *)
(* Requests of several devices interleave at every await.  An address is   *)
(* a bridge forwarder, minted for one destination; amounts are left out,   *)
(* and so are rows older than runs (runId null).                           *)
(***************************************************************************)
EXTENDS Integers, FiniteSets

CONSTANTS
    Dests,      \* destinations a user withdraws to
    Calls,      \* requests that may be under way together
    MaxRuns,    \* bound on runs
    MaxMints,   \* bound on minted forwarders
    MaxFaults   \* bound on restarts, lost sessions, throws and probes that fail

ASSUME WithdrawAssumption ==
    /\ MaxRuns \in Nat /\ MaxMints \in Nat /\ MaxFaults \in Nat
    /\ Dests # {}

Runs == 1..MaxRuns
Addresses == 1..MaxMints
Zero == 0   \* null: no run, no handle, no address

VARIABLES
    row,     \* the slot: state, run, handle (the run whose relayer id it holds), addr, expired
    live,    \* runs whose generator is in memory, parked on a device signature
    runs,    \* addresses the runs so far pay, by run (inputs.bridgeAddress)
    minted,  \* destinations of the forwarders so far, by address
    ledger,  \* relayer_txs: status by run
    tx,      \* the relayer's transaction of a run
    sent,    \* times a run's transfer was handed to the relayer
    call,    \* what each request is doing
    faults   \* faults so far

vars == <<row, live, runs, minted, ledger, tx, sent, call, faults>>

NoRow == [state |-> "none", run |-> Zero, handle |-> Zero, addr |-> Zero, expired |-> FALSE]

\* op: the route; stage: the next await; want: the address the device was told, which its
\* guard compares with the one it is asked to sign for; addr: the address of the run it
\* would start; run, from: the run it works on and the state it saw it in; overdue: and
\* it was; signed: the advance carries the device's signature.
NoCall == [op |-> "none", stage |-> "idle", dest |-> Zero, want |-> Zero, addr |-> Zero,
           run |-> Zero, from |-> "none", overdue |-> FALSE, signed |-> FALSE]

\* A device that was served the request of run r, and knows its forwarder, may sign.
Served(k, r) ==
    IF k.want = Zero THEN NoCall
    ELSE [NoCall EXCEPT !.op = "answer", !.stage = "sign", !.want = k.want, !.run = r]
\* The run that a request now drives through its next advance.
Driving(k, r) == [NoCall EXCEPT !.op = "run", !.stage = "fence", !.want = k.want, !.run = r]

To(c, k) == call' = [call EXCEPT ![c] = k]
Goes(c, stage) == To(c, [call[c] EXCEPT !.stage = stage])
Ends(c) == To(c, NoCall)
At(c, stage) == call[c].stage = stage

Faulty == faults < MaxFaults /\ faults' = faults + 1
Fine == UNCHANGED faults

\* Mutant: the write goes to the user's row of this kind, whichever run has it.
AnyRun(k) == TRUE
\* where: {runId}.
InRow(k) == row.run = k.run

-----------------------------------------------------------------------------
(* POST /api/real/withdraw up to the engine.                                *)

\* What the route does with the row it just read: converge, reuse the forwarder of a
\* failed run to the same destination, or mint one.
Reusable(d) == row.state = "FAILED" /\ minted[row.addr] = d
OnRow(c, k) ==
    To(c, IF Reusable(k.dest)
          THEN [k EXCEPT !.stage = "start", !.addr = row.addr, !.want = row.addr,
                         !.run = Zero, !.from = "none"]
          ELSE [k EXCEPT !.stage = "mint", !.run = Zero, !.from = "none"])

WithdrawRead(c, d) ==
    /\ At(c, "idle")
    /\ LET k == [NoCall EXCEPT !.op = "withdraw", !.dest = d,
                               !.run = row.run, !.from = row.state] IN
       CASE row.state = "PENDING" -> To(c, [k EXCEPT !.stage = "supersede"])
         [] row.state = "SUBMITTING" -> To(c, [k EXCEPT !.stage = "verdict"])
         [] OTHER -> OnRow(c, k)
    /\ UNCHANGED <<row, live, runs, minted, ledger, tx, sent, faults>>

\* A run that waits for a signature gives way: its signature would go stale.
Supersede(c) ==
    /\ At(c, "supersede")
    /\ IF row.state = "PENDING" /\ InRow(call[c])
       THEN row' = [row EXCEPT !.state = "FAILED"] /\ Goes(c, "reread")
       ELSE UNCHANGED row /\ Ends(c)
    /\ UNCHANGED <<live, runs, minted, ledger, tx, sent, faults>>

Reread(c) ==
    /\ At(c, "reread")
    /\ IF row.state = "SUBMITTING"
       THEN To(c, [call[c] EXCEPT !.stage = "verdict", !.run = row.run, !.from = row.state])
       ELSE OnRow(c, call[c])
    /\ UNCHANGED <<row, live, runs, minted, ledger, tx, sent, faults>>

\* The run converged, and this request asks for something else: go on, whatever the
\* row is by now.
GoOn(c) ==
    /\ At(c, "goon")
    /\ OnRow(c, call[c])
    /\ UNCHANGED <<row, live, runs, minted, ledger, tx, sent, faults>>

\* createWithdrawal, which cannot be undone.
Mint(c) ==
    /\ At(c, "mint") /\ Cardinality(DOMAIN minted) < MaxMints
    /\ LET a == Cardinality(DOMAIN minted) + 1 IN
       /\ minted' = [b \in DOMAIN minted \cup {a} |-> IF b = a THEN call[c].dest ELSE minted[b]]
       /\ To(c, [call[c] EXCEPT !.stage = "start", !.addr = a, !.want = a])
    /\ UNCHANGED <<row, live, runs, ledger, tx, sent, faults>>

MintFails(c) ==
    /\ At(c, "mint")
    /\ Ends(c)
    /\ UNCHANGED <<row, live, runs, minted, ledger, tx, sent, faults>>

-----------------------------------------------------------------------------
(* POST /api/real/workflow: drives or answers a run that exists.            *)

\* The route builds its spec from the row it reads here.
Drives == {"PENDING", "SUBMITTING", "DONE"}
DriveRead(c) ==
    /\ At(c, "idle") /\ row.state \in Drives
    /\ To(c, [NoCall EXCEPT !.op = "drive", !.stage = "start", !.addr = row.addr])
    /\ UNCHANGED <<row, live, runs, minted, ledger, tx, sent, faults>>

\* The device signs what its guard lets through: a transfer to the address it was told.
DeviceSigns(c) ==
    /\ At(c, "sign") /\ runs[call[c].run] = call[c].want
    /\ Goes(c, "route")
    /\ UNCHANGED <<row, live, runs, minted, ledger, tx, sent, faults>>

DeviceLeaves(c) ==
    /\ At(c, "sign")
    /\ Ends(c)
    /\ UNCHANGED <<row, live, runs, minted, ledger, tx, sent, faults>>

AnswerRoute(c) ==
    /\ At(c, "route")
    /\ IF row.state \in Drives
       THEN To(c, [call[c] EXCEPT !.stage = "answer", !.addr = row.addr])
       ELSE Ends(c)
    /\ UNCHANGED <<row, live, runs, minted, ledger, tx, sent, faults>>

\* Mutant: the session stays in the map until the advance is over.
KeepSession(r) == live
\* answerWorkflow takes the session out of the map: a duplicate answer finds none.
Consume(r) == live \ {r}

Answer(c) ==
    LET k == call[c] IN
    /\ At(c, "answer")
    /\ CASE row.state # "PENDING" \/ ~InRow(k) -> Ends(c) /\ UNCHANGED live
         [] row.state = "PENDING" /\ InRow(k) /\ k.run \notin live ->
              To(c, [k EXCEPT !.stage = "fresh", !.from = row.state]) /\ UNCHANGED live
         [] OTHER -> To(c, [Driving(k, k.run) EXCEPT !.signed = TRUE])
                     /\ live' = Consume(k.run)
    /\ UNCHANGED <<row, runs, minted, ledger, tx, sent, faults>>

-----------------------------------------------------------------------------
(* startWorkflow and the run it drives.                                     *)

\* An overdue run is judged only by the handle it left.
Overdue == row.expired /\ row.handle # Zero

StartRead(c) ==
    LET k == [call[c] EXCEPT !.run = row.run, !.from = row.state] IN
    /\ At(c, "start")
    /\ \/ /\ \/ row.state \in {"none", "FAILED"}
             \/ row.state = "DONE" /\ (k.op = "withdraw" \/ k.addr # row.addr)
             \/ row.state = "DONE" /\ row.handle # Zero /\ tx[row.handle] = "failed"
             \/ row.state = "PENDING" /\ row.run \notin live
          /\ To(c, [k EXCEPT !.stage = "fresh"])
          /\ UNCHANGED <<live, faults>>
       \/ /\ row.state = "DONE" /\ k.addr = row.addr
          /\ Ends(c)
          /\ UNCHANGED <<live, faults>>
       \/ /\ row.state = "SUBMITTING"
          /\ To(c, [k EXCEPT !.stage = "verdict", !.overdue = Overdue])
          /\ UNCHANGED <<live, faults>>
       \/ /\ row.state = "PENDING" /\ row.run \in live   \* the request is served again
          /\ To(c, Served(k, row.run))
          /\ UNCHANGED <<live, faults>>
       \/ /\ row.state = "PENDING" /\ row.run \in live   \* its envelope is about to expire
          /\ Faulty
          /\ live' = live \ {row.run}
          /\ To(c, [k EXCEPT !.stage = "fresh"])
    /\ UNCHANGED <<row, runs, minted, ledger, tx, sent>>

\* The reset is qualified on the exact row observed.
Unmoved(k) == row.run = k.run /\ row.state = k.from

\* freshRun.  A loser whose forwarder was minted for nothing reports it and stops.
Fresh(c) ==
    LET k == call[c]  r == Cardinality(DOMAIN runs) + 1 IN
    /\ At(c, "fresh")
    /\ IF Unmoved(k)
       THEN /\ r \in Runs
            /\ row' = [state |-> "PENDING", run |-> r, handle |-> Zero, addr |-> k.addr,
                       expired |-> FALSE]
            /\ runs' = [q \in DOMAIN runs \cup {r} |-> IF q = r THEN k.addr ELSE runs[q]]
            /\ To(c, Driving(k, r))
       ELSE UNCHANGED <<row, runs>> /\ Ends(c)
    /\ UNCHANGED <<live, minted, ledger, tx, sent, faults>>

\* The generator could not be built: nothing was sent and the slot is given up.
FactoryFails(c) ==
    LET k == call[c] IN
    /\ At(c, "fence") /\ ~k.signed
    /\ Faulty
    /\ row' = IF InRow(k) THEN [row EXCEPT !.state = "FAILED"] ELSE row
    /\ Ends(c)
    /\ UNCHANGED <<live, runs, minted, ledger, tx, sent>>

\* The fence: the row is SUBMITTING and the run has its relayer_txs row before an advance.
Fence(c) ==
    LET k == call[c] IN
    /\ At(c, "fence")
    /\ IF InRow(k) /\ row.state \in {"PENDING", "SUBMITTING"}
       THEN /\ row' = [row EXCEPT !.state = "SUBMITTING", !.expired = FALSE]
            /\ ledger' = [ledger EXCEPT ![k.run] = "SUBMITTING"]
            /\ Goes(c, "advance")
       ELSE UNCHANGED <<row, ledger>> /\ Ends(c)
    /\ UNCHANGED <<live, runs, minted, tx, sent, faults>>

\* The advance that builds the envelope (the signer's address is answered by the server).
Prepare(c) ==
    LET k == call[c] IN
    /\ At(c, "advance") /\ ~k.signed
    /\ live' = live \cup {k.run}
    /\ Goes(c, "park")
    /\ UNCHANGED <<row, runs, minted, ledger, tx, sent, faults>>

Park(c) ==
    LET k == call[c] IN
    /\ At(c, "park")
    /\ IF InRow(k) /\ row.state = "SUBMITTING"
       THEN row' = [row EXCEPT !.state = "PENDING"] /\ To(c, Served(k, k.run))
       ELSE UNCHANGED row /\ Ends(c)
    /\ UNCHANGED <<live, runs, minted, ledger, tx, sent, faults>>

\* The advance that submits: the relayer takes the transfer.
Hand(r) ==
    /\ tx' = [tx EXCEPT ![r] = "queued"]
    /\ sent' = [sent EXCEPT ![r] = @ + 1]

Submit(c) ==
    LET k == call[c] IN
    /\ At(c, "advance") /\ k.signed /\ sent[k.run] < 2
    /\ Hand(k.run)
    /\ Goes(c, "record")
    /\ UNCHANGED <<row, live, runs, minted, ledger, faults>>

\* An advance throws; whether the relayer saw it is not known.
Throws(c) ==
    LET k == call[c] IN
    /\ At(c, "advance") /\ Faulty
    /\ \/ k.signed /\ sent[k.run] < 2 /\ Hand(k.run)
       \/ UNCHANGED <<tx, sent>>
    /\ live' = live \ {k.run}
    /\ ledger' = [ledger EXCEPT ![k.run] = "FAILED"]
    /\ Ends(c)
    /\ UNCHANGED <<row, runs, minted>>

\* The relayer's id of the transfer goes into the row, if the run still has it.
Record(c) ==
    LET k == call[c] IN
    /\ At(c, "record")
    /\ row' = IF InRow(k) THEN [row EXCEPT !.handle = k.run] ELSE row
    /\ Goes(c, "verdict")
    /\ UNCHANGED <<live, runs, minted, ledger, tx, sent, faults>>

-----------------------------------------------------------------------------
(* Convergence.                                                             *)

\* Mutant: a transaction that was executed or mined counts as landed.
VerdictOfMined == IF row.handle = Zero THEN "unknown"
                  ELSE IF tx[row.handle] = "queued" THEN "landed" ELSE tx[row.handle]
\* relayerVerdict: the transaction of the handle the row holds now.
Verdict == IF row.handle = Zero THEN "unknown" ELSE tx[row.handle]

\* A verify that is not positive ends a request, but for startWorkflow, which asks once
\* more whether an overdue run certainly failed.

AskVerdict(c) ==
    LET k == call[c] IN
    /\ At(c, "verdict")
    /\ \/ Verdict = "landed" /\ Goes(c, "mark") /\ Fine
       \/ /\ Verdict # "landed" /\ Fine
          /\ IF k.overdue THEN Goes(c, "release") ELSE Ends(c)
       \/ Faulty /\ Ends(c)   \* the probe is unreachable
    /\ UNCHANGED <<row, live, runs, minted, ledger, tx, sent>>

MarkDone(c) ==
    LET k == call[c] IN
    /\ At(c, "mark")
    /\ row' = IF InRow(k) THEN [row EXCEPT !.state = "DONE"] ELSE row
    /\ Goes(c, "confirm")
    /\ UNCHANGED <<live, runs, minted, ledger, tx, sent, faults>>

Confirm(c) ==
    LET k == call[c] IN
    /\ At(c, "confirm")
    /\ ledger' = [ledger EXCEPT ![k.run] = IF @ = "none" THEN @ ELSE "CONFIRMED"]
    /\ \/ Ends(c)   \* the answer is "done": for a withdrawal, to a retry of that very one
       \/ k.op = "withdraw" /\ k.addr = Zero /\ Goes(c, "goon")
    /\ UNCHANGED <<row, live, runs, minted, tx, sent, faults>>

\* Mutant: a transfer that is not known to have landed did not.
NotLanded == Verdict # "landed"
\* definitelyNotDone: only the relayer's failure is proof.
CertainlyFailed == Verdict = "failed"

Release(c) ==
    LET k == call[c] IN
    /\ At(c, "release")
    /\ IF CertainlyFailed
       THEN /\ ledger' = [ledger EXCEPT ![k.run] = IF @ = "SUBMITTING" THEN "FAILED" ELSE @]
            /\ Goes(c, "fresh")
       ELSE UNCHANGED ledger /\ Ends(c)
    /\ UNCHANGED <<row, live, runs, minted, tx, sent, faults>>

\* GET /api/real/withdraw of the open card: once the bridge reports COMPLETED for the
\* row's forwarder it converges the run.
\* Mutant: only if every run that pays the forwarder did.
EveryRunCompleted(a) == \A r \in DOMAIN runs : runs[r] = a => tx[r] = "landed"
BridgeCompleted(a) == \E r \in DOMAIN runs : runs[r] = a /\ tx[r] = "landed"
CardPolls(c) ==
    /\ At(c, "idle")
    /\ row.state = "SUBMITTING" /\ BridgeCompleted(row.addr)
    /\ To(c, [NoCall EXCEPT !.op = "get", !.stage = "verdict", !.run = row.run])
    /\ UNCHANGED <<row, live, runs, minted, ledger, tx, sent, faults>>

-----------------------------------------------------------------------------
(* Time, the relayer, restarts and the operator.                            *)

Expires ==
    /\ row.state = "SUBMITTING" /\ ~row.expired
    /\ row' = [row EXCEPT !.expired = TRUE]
    /\ UNCHANGED <<live, runs, minted, ledger, tx, sent, call, faults>>

RelayerSettles(r) ==
    /\ tx[r] = "queued"
    /\ \E v \in {"landed", "failed"} : tx' = [tx EXCEPT ![r] = v]
    /\ UNCHANGED <<row, live, runs, minted, ledger, sent, call, faults>>

SessionLost(r) ==
    /\ r \in live /\ Faulty
    /\ live' = live \ {r}
    /\ UNCHANGED <<row, runs, minted, ledger, tx, sent, call>>

\* The server restarts: sessions and requests are gone, devices are not.
Restart ==
    /\ Faulty
    /\ live' = {}
    /\ call' = [c \in Calls |-> IF At(c, "sign") THEN call[c] ELSE NoCall]
    /\ UNCHANGED <<row, runs, minted, ledger, tx, sent>>

\* scripts/resolve-workflow.ts.  The operator verified on chain; no advance of the run is
\* under way, which the script does not check and the hours it takes stand for.
Advancing(r) == \E c \in Calls : call[c].run = r /\ call[c].stage \in {"advance", "record", "park"}
Resolve ==
    /\ row.state = "SUBMITTING" /\ ~Advancing(row.run)
    /\ \/ /\ tx[row.run] = "landed"
          /\ row' = [row EXCEPT !.state = "DONE"]
          /\ ledger' = [ledger EXCEPT ![row.run] = "CONFIRMED"]
       \/ /\ tx[row.run] \in {"none", "failed"}
          /\ row' = [row EXCEPT !.state = "FAILED"]
          /\ ledger' = [ledger EXCEPT ![row.run] = "FAILED"]
    /\ UNCHANGED <<live, runs, minted, tx, sent, call, faults>>

-----------------------------------------------------------------------------
Init ==
    /\ row = NoRow
    /\ live = {}
    /\ runs = [r \in {} |-> Zero]
    /\ minted = [a \in {} |-> Zero]
    /\ ledger = [r \in Runs |-> "none"]
    /\ tx = [r \in Runs |-> "none"]
    /\ sent = [r \in Runs |-> 0]
    /\ call = [c \in Calls |-> NoCall]
    /\ faults = 0

Engine(c) ==
    \/ StartRead(c) \/ Fresh(c) \/ FactoryFails(c) \/ Fence(c) \/ Prepare(c) \/ Park(c)
    \/ Submit(c) \/ Throws(c) \/ Record(c)
    \/ AskVerdict(c) \/ MarkDone(c) \/ Confirm(c) \/ Release(c)

Route(c) ==
    \/ \E d \in Dests : WithdrawRead(c, d)
    \/ Supersede(c) \/ Reread(c) \/ GoOn(c) \/ Mint(c) \/ MintFails(c)
    \/ DriveRead(c) \/ DeviceSigns(c) \/ DeviceLeaves(c) \/ AnswerRoute(c) \/ Answer(c)
    \/ CardPolls(c)

Next ==
    \/ \E c \in Calls : Route(c) \/ Engine(c)
    \/ \E r \in Runs : RelayerSettles(r) \/ SessionLost(r)
    \/ Expires \/ Restart \/ Resolve

Spec == Init /\ [][Next]_vars

-----------------------------------------------------------------------------
(* Properties.                                                              *)

States == {"none", "PENDING", "SUBMITTING", "FAILED", "DONE"}
TypeOK ==
    /\ row \in [state : States, run : Runs \cup {Zero}, handle : Runs \cup {Zero},
                addr : Addresses \cup {Zero}, expired : BOOLEAN]
    /\ live \subseteq DOMAIN runs
    /\ runs \in [1..Cardinality(DOMAIN runs) -> Addresses]
    /\ minted \in [1..Cardinality(DOMAIN minted) -> Dests]
    /\ ledger \in [Runs -> {"none", "SUBMITTING", "FAILED", "CONFIRMED"}]
    /\ tx \in [Runs -> {"none", "queued", "landed", "failed"}]
    /\ row.run # Zero => row.handle \in {Zero, row.run}

\* The card reads "Sent" only if the money of the run in the slot moved (tryConverge,
\* runScoped): the verdict may be that of a run which took the slot meanwhile.
DoneMeansLanded == row.state = "DONE" => tx[row.run] = "landed"

\* A run's transfer goes to the relayer at most once, however many answers, restarts and
\* throws: the fence admits a SUBMITTING row, so the session map is what stands here.
OneSubmissionPerRun == \A r \in Runs : sent[r] <= 1

\* A run is replaced only if its transfer never went and cannot go any more, certainly
\* failed, or is reported DONE: nothing is paid behind the run in the slot.
CanStillGo(r) ==
    \/ tx[r] = "queued"
    \/ \E c \in Calls : At(c, "advance") /\ call[c].run = r /\ call[c].signed
Settled(r) == ~CanStillGo(r) /\ (tx[r] = "landed" => row.state = "DONE")
ReplacedOnlySettled == [][row'.run # row.run /\ row.run # Zero => Settled(row.run)]_vars

\* A payment that went out and has its handle in the row is reported, with no one but
\* the open card asking.
LandedReported ==
    \A r \in Runs :
        row.state = "SUBMITTING" /\ row.handle = r /\ tx[r] = "landed" ~> row.state = "DONE"

FairSpec ==
    /\ Spec
    /\ \A c \in Calls : WF_vars(Engine(c)) /\ SF_vars(CardPolls(c))
=============================================================================
