------------------------------ MODULE Host_proofs ------------------------------
(*********************************************************************************)
(* Three machines of the hosts, which share no state: the rkv daemon, the        *)
(* bdev's KV forward and the life of a bdev.                                     *)
(*********************************************************************************)
EXTENDS RkvDaemon, KvForward, BdevDisk, TLAPS

\* A leaf that names no backend goes to Zenon.
USE ZenonT(60)

(*********************************************************************************)
(* One daemon, and one application of a Store, for any number of processes       *)
(* and commands.                                                                 *)
(*********************************************************************************)
ProcRecord ==
    [pc : Serving \cup {"opening", "unlinked", "dropping", "gone"},
     sig : BOOLEAN, shut : BOOLEAN, conn : RkvClient \cup {RkvNone},
     probed : RkvLength \cup {RkvNone}]

DaemonTypes ==
    /\ rkvSock \in RkvProcess \cup {RkvNone} /\ rkvPid \in RkvProcess \cup {RkvNone}
    /\ rkvProc \in [RkvProcess -> ProcRecord]
    /\ rkvOper \in [pc : {"idle", "spawn", "starting", "waiting", "killed"},
                    pid : RkvProcess \cup {RkvNone}]
    /\ rkvDoubt \in BOOLEAN

\* While no live daemon was taken for dead: the one process that lives is in the pid file,
\* the operator waits for it while it comes up and while it goes away, and in between the
\* socket is its own.
Known(d) ==
    /\ rkvPid = d
    /\ rkvOper.pc # "spawn"
    /\ rkvOper.pc # "idle" => rkvOper.pid = d
    /\ rkvProc[d].pc \in Serving => rkvSock = d
    /\ rkvProc[d].pc \in {"opening", "unlinked"} => rkvOper.pc = "starting"
    /\ (rkvProc[d].sig \/ rkvProc[d].shut \/ rkvProc[d].pc = "dropping") =>
          rkvOper.pc \in {"waiting", "killed"}

\* The inductive invariant of the daemons.
DaemonInv ==
    /\ DaemonTypes
    /\ rkvDoubt \/ \A d \in RkvProcess : rkvProc[d].pc # "gone" => Known(d)

LEMMA GoneTyped ==
    /\ RkvGone \in ProcRecord
    /\ RkvGone.pc = "gone" /\ RkvGone.sig = FALSE /\ RkvGone.shut = FALSE /\ RkvGone.conn = RkvNone
  BY DEF RkvGone, ProcRecord

LEMMA DaemonInitial == RkvInit => DaemonInv
<1> HAVE RkvInit
<1>1. rkvProc \in [RkvProcess -> ProcRecord] /\ \A d \in RkvProcess : rkvProc[d].pc = "gone"
  BY GoneTyped DEF RkvInit
<1>2. DaemonTypes
  BY <1>1 DEF RkvInit, DaemonTypes
<1> QED BY <1>1, <1>2 DEF DaemonInv

\* A step within a connection.
LEMMA ServingStep ==
    ASSUME DaemonInv, NEW d \in RkvProcess, NEW r \in ProcRecord,
           rkvProc[d].pc \in Serving, r.pc \in Serving,
           r.sig = rkvProc[d].sig, r.shut = rkvProc[d].shut,
           rkvProc' = [rkvProc EXCEPT ![d] = r],
           UNCHANGED <<rkvSock, rkvPid, rkvOper, rkvDoubt>>
    PROVE  DaemonInv'
<1>1. DaemonTypes'
  BY DEF DaemonInv, DaemonTypes
<1>2. ASSUME ~rkvDoubt, NEW e \in RkvProcess, rkvProc'[e].pc # "gone" PROVE Known(e)'
  <2>1. rkvProc[e].pc # "gone" /\ Known(e)
    BY <1>2 DEF DaemonInv, DaemonTypes, Serving
  <2> QED BY <2>1 DEF Known, DaemonInv, DaemonTypes, Serving
<1> QED BY <1>1, <1>2 DEF DaemonInv

\* A process is gone, and with it perhaps the socket.
LEMMA GoneStep ==
    ASSUME DaemonInv, NEW d \in RkvProcess,
           rkvProc' = [rkvProc EXCEPT ![d] = RkvGone],
           rkvSock' = rkvSock \/ (rkvProc[d].pc # "gone" /\ rkvSock' = RkvNone),
           UNCHANGED <<rkvPid, rkvOper, rkvDoubt>>
    PROVE  DaemonInv'
<1>1. DaemonTypes'
  BY GoneTyped DEF DaemonInv, DaemonTypes
<1>2. ASSUME ~rkvDoubt, NEW e \in RkvProcess, rkvProc'[e].pc # "gone" PROVE Known(e)'
  <2>1. e # d /\ rkvProc'[e] = rkvProc[e] /\ Known(e)
    BY <1>2, GoneTyped DEF DaemonInv, DaemonTypes
  <2>2. rkvSock' = rkvSock
    BY <1>2, <2>1 DEF DaemonInv, Known
  <2> QED BY <2>1, <2>2 DEF Known
<1> QED BY <1>1, <1>2 DEF DaemonInv

\* One process moves, the socket may change, and no other process lives.
LEMMA MoveStep ==
    ASSUME DaemonInv, NEW d \in RkvProcess, NEW r \in ProcRecord,
           rkvProc[d].pc # "gone",
           rkvProc' = [rkvProc EXCEPT ![d] = r],
           rkvSock' \in RkvProcess \cup {RkvNone},
           UNCHANGED <<rkvPid, rkvOper, rkvDoubt>>,
           ~rkvDoubt => Known(d)'
    PROVE  DaemonInv'
<1>1. DaemonTypes'
  BY DEF DaemonInv, DaemonTypes
<1>2. ASSUME ~rkvDoubt, NEW e \in RkvProcess, rkvProc'[e].pc # "gone" PROVE Known(e)'
  <2>1. CASE e = d
    BY <1>2, <2>1
  <2>2. CASE e # d
    <3>1. Known(e) /\ Known(d)
      BY <1>2, <2>2 DEF DaemonInv, DaemonTypes
    <3> QED BY <2>2, <3>1 DEF Known
  <2> QED BY <2>1, <2>2
<1> QED BY <1>1, <1>2 DEF DaemonInv

LEMMA DaemonServes ==
    ASSUME DaemonInv, NEW d \in RkvProcess, RkvServes(d)
    PROVE  DaemonInv'
<1> USE DEF Move, HangsUp
<1>t. rkvProc[d] \in ProcRecord
  BY DEF DaemonInv, DaemonTypes
<1>k. rkvProc[d].pc # "gone" /\ ~rkvDoubt => Known(d)
  BY DEF DaemonInv
<1>1. CASE run_Open(d)
  <2>1. CASE rkvProc' = [rkvProc EXCEPT ![d] = RkvGone] /\ UNCHANGED rkvSock
    BY <1>1, <2>1, GoneStep DEF run_Open
  <2>2. CASE rkvProc' = [rkvProc EXCEPT ![d] = [rkvProc[d] EXCEPT !.pc = "unlinked"]]
             /\ rkvSock' = RkvNone
    <3>1. [rkvProc[d] EXCEPT !.pc = "unlinked"] \in ProcRecord
      BY <1>t DEF ProcRecord
    <3>2. ~rkvDoubt => Known(d)'
      BY <1>1, <1>t, <1>k, <2>2 DEF run_Open, Known, DaemonInv, DaemonTypes, Serving, ProcRecord
    <3> QED BY <1>1, <2>2, <3>1, <3>2, MoveStep DEF run_Open
  <2> QED BY <1>1, <2>1, <2>2 DEF run_Open
<1>2. CASE run_Bind(d)
  <2>1. CASE rkvSock # RkvNone
    BY <1>2, <2>1, GoneStep DEF run_Bind
  <2>2. CASE rkvSock = RkvNone
    <3>1. [rkvProc[d] EXCEPT !.pc = "accept"] \in ProcRecord
      BY <1>t DEF ProcRecord, Serving
    <3>2. ~rkvDoubt => Known(d)'
      BY <1>2, <1>t, <1>k, <2>2, SMT DEF run_Bind, Known, DaemonInv, DaemonTypes, Serving, ProcRecord
    <3> QED BY <1>2, <2>2, <3>1, <3>2, MoveStep DEF run_Bind
  <2> QED BY <2>1, <2>2
<1>s. ASSUME NEW pc \in Serving, NEW probed \in RkvLength \cup {RkvNone},
             NEW conn \in RkvClient \cup {RkvNone}, rkvProc[d].pc \in Serving,
             rkvProc' = [rkvProc EXCEPT ![d] =
                 [rkvProc[d] EXCEPT !.pc = pc, !.conn = conn, !.probed = probed]],
             UNCHANGED <<rkvSock, rkvPid, rkvOper, rkvDoubt>>
      PROVE  DaemonInv'
  <2> DEFINE r == [rkvProc[d] EXCEPT !.pc = pc, !.conn = conn, !.probed = probed]
  <2>1. r \in ProcRecord /\ r.pc = pc /\ r.sig = rkvProc[d].sig /\ r.shut = rkvProc[d].shut
    BY <1>t DEF ProcRecord
  <2> HIDE DEF r
  <2> QED BY <1>s, <2>1, ServingStep DEF r
<1>m. ASSUME NEW pc \in Serving, rkvProc[d].pc \in Serving, Move(d, pc),
             UNCHANGED <<rkvSock, rkvPid, rkvOper, rkvDoubt>>
      PROVE  DaemonInv'
  <2> DEFINE r == [rkvProc[d] EXCEPT !.pc = pc]
  <2>1. r \in ProcRecord /\ r.pc = pc /\ r.sig = rkvProc[d].sig /\ r.shut = rkvProc[d].shut
    BY <1>t DEF ProcRecord
  <2> HIDE DEF r
  <2> QED BY <1>m, <2>1, ServingStep DEF r
<1>h. ASSUME rkvProc[d].pc \in Serving, HangsUp(d),
             UNCHANGED <<rkvSock, rkvPid, rkvOper, rkvDoubt>>
      PROVE  DaemonInv'
  <2>1. "accept" \in Serving
    BY DEF Serving
  <2> QED BY <1>h, <1>s, <2>1
<1>3. CASE handle_conn_Ping(d)
  BY <1>3, <1>m DEF handle_conn_Ping, Serving
<1>4. CASE handle_conn_Request(d)
  BY <1>4, <1>m DEF handle_conn_Request, Serving
<1>5. CASE handle_conn_Ends(d)
  BY <1>5, <1>h DEF handle_conn_Ends, Serving
<1>6. CASE serve_op(d)
  <2>1. /\ rkvProc[d].pc \in Serving
        /\ UNCHANGED <<rkvSock, rkvPid, rkvOper, rkvDoubt>>
        /\ \/ HangsUp(d)
           \/ \E len \in RkvLength : rkvProc' = [rkvProc EXCEPT ![d] =
                 [rkvProc[d] EXCEPT !.pc = "reread", !.probed = len]]
    BY <1>6 DEF serve_op, Serving
  <2>2. ASSUME NEW len \in RkvLength, rkvProc' = [rkvProc EXCEPT ![d] =
                 [rkvProc[d] EXCEPT !.pc = "reread", !.probed = len]]
        PROVE  DaemonInv'
    <3> DEFINE r == [rkvProc[d] EXCEPT !.pc = "reread", !.probed = len]
    <3>1. /\ r \in ProcRecord /\ r.pc \in Serving
          /\ r.sig = rkvProc[d].sig /\ r.shut = rkvProc[d].shut
      BY <1>t DEF ProcRecord, Serving
    <3> HIDE DEF r
    <3> QED BY <2>1, <2>2, <3>1, ServingStep DEF r
  <2> QED BY <1>h, <2>1, <2>2
<1>7. CASE run_Ends(d)
  <2>1. [rkvProc[d] EXCEPT !.pc = "dropping"] \in ProcRecord
    BY <1>t DEF ProcRecord
  <2>2. ~rkvDoubt => Known(d)'
    BY <1>7, <1>t, <1>k DEF run_Ends, Known, DaemonInv, DaemonTypes, Serving, ProcRecord
  <2> QED BY <1>7, <2>1, <2>2, MoveStep DEF run_Ends, DaemonInv, DaemonTypes
<1>8. CASE run_Exits(d)
  BY <1>8, GoneStep DEF run_Exits
<1> QED BY <1>1, <1>2, <1>3, <1>4, <1>5, <1>6, <1>7, <1>8 DEF RkvServes

LEMMA DaemonAccepts ==
    ASSUME DaemonInv, NEW d \in RkvProcess, NEW c \in RkvClient, incoming(d, c)
    PROVE  DaemonInv'
<1> DEFINE r == [rkvProc[d] EXCEPT !.pc = "ping", !.conn = c]
<1>1. /\ r \in ProcRecord /\ r.pc \in Serving
      /\ r.sig = rkvProc[d].sig /\ r.shut = rkvProc[d].shut
  BY DEF DaemonInv, DaemonTypes, ProcRecord, Serving
<1>2. rkvProc' = [rkvProc EXCEPT ![d] = r] /\ rkvProc[d].pc \in Serving
  BY DEF incoming, Serving
<1> HIDE DEF r
<1> QED BY <1>1, <1>2, ServingStep DEF incoming

\* The operator finds no daemon: nothing lives, or something was taken for dead.
LEMMA NothingLives ==
    ASSUME DaemonInv, ~rkvDoubt, ~MissedLive, rkvOper.pc = "idle"
    PROVE  \A d \in RkvProcess : rkvProc[d].pc = "gone"
<1> SUFFICES ASSUME NEW d \in RkvProcess, rkvProc[d].pc # "gone" PROVE FALSE
  OBVIOUS
<1>1. Known(d) /\ rkvProc[d] \in ProcRecord
  BY DEF DaemonInv, DaemonTypes
<1>2. rkvProc[d].pc \in Serving
  BY <1>1 DEF Known, ProcRecord
<1> QED BY <1>1, <1>2, RkvAssumption DEF Known, MissedLive

LEMMA OperatorStarts ==
    ASSUME DaemonInv, NEW answer \in BOOLEAN, start(answer)
    PROVE  DaemonInv'
<1>1. CASE answer
  BY <1>1 DEF start, DaemonInv, DaemonTypes, Known
<1>2. CASE ~answer
  <2>1. DaemonTypes'
    BY <1>2, SMT DEF start, Operator, DaemonInv, DaemonTypes, MissedLive
  <2>2. ASSUME ~rkvDoubt' PROVE \A d \in RkvProcess : rkvProc'[d].pc = "gone"
    BY <1>2, <2>2, NothingLives DEF start, DaemonInv, DaemonTypes
  <2> QED BY <2>1, <2>2 DEF DaemonInv
<1> QED BY <1>1, <1>2

LEMMA OperatorSpawns ==
    ASSUME DaemonInv, NEW d \in RkvProcess, start_Spawn(d)
    PROVE  DaemonInv'
<1> DEFINE r == [RkvGone EXCEPT !.pc = "opening"]
<1>1. /\ r \in ProcRecord /\ r.pc = "opening" /\ r.pc \notin Serving
      /\ r.sig = FALSE /\ r.shut = FALSE
  BY DEF RkvGone, ProcRecord, Serving
<1>2. rkvProc' = [rkvProc EXCEPT ![d] = r]
  BY DEF start_Spawn
<1> HIDE DEF r
<1>3. DaemonTypes'
  BY <1>1, <1>2 DEF start_Spawn, Operator, DaemonInv, DaemonTypes
<1>4. ASSUME ~rkvDoubt, NEW e \in RkvProcess, rkvProc'[e].pc # "gone" PROVE Known(e)'
  <2>1. e = d
    BY <1>2, <1>4 DEF start_Spawn, DaemonInv, DaemonTypes, Known
  <2>2. rkvProc'[d] = r /\ rkvPid' = d /\ rkvOper' = [pc |-> "starting", pid |-> d]
    BY <1>2 DEF start_Spawn, Operator, DaemonInv, DaemonTypes
  <2> QED BY <1>1, <2>1, <2>2 DEF Known
<1> QED BY <1>3, <1>4 DEF DaemonInv, start_Spawn

LEMMA OperatorWaited ==
    ASSUME DaemonInv, NEW answer \in BOOLEAN, start_Waited(answer)
    PROVE  DaemonInv'
<1>1. DaemonTypes'
  BY DEF start_Waited, Operator, DaemonInv, DaemonTypes, Alive
<1>2. ASSUME ~rkvDoubt', NEW e \in RkvProcess, rkvProc'[e].pc # "gone" PROVE Known(e)'
  <2>1. rkvProc'[e] = rkvProc[e] /\ Known(e) /\ rkvOper.pid = e /\ ~rkvDoubt
    BY <1>2 DEF start_Waited, DaemonInv, DaemonTypes, Known
  <2>2. answer /\ rkvSock \in RkvProcess /\ rkvProc[rkvSock].pc \in Serving
    BY <1>2, <2>1, RkvAssumption DEF start_Waited, Alive, Pings, DaemonInv, DaemonTypes
  <2>3. rkvSock = e
    BY <2>1, <2>2 DEF DaemonInv, Known, Serving
  <2> QED BY <2>1, <2>2, <2>3 DEF start_Waited, Operator, Known, Serving
<1> QED BY <1>1, <1>2 DEF DaemonInv

LEMMA OperatorStops ==
    ASSUME DaemonInv, NEW answer \in BOOLEAN, stop(answer)
    PROVE  DaemonInv'
<1> DEFINE r == [rkvProc[rkvSock] EXCEPT !.shut = TRUE]
<1>1. answer => /\ rkvSock \in RkvProcess /\ r \in ProcRecord /\ r.pc = rkvProc[rkvSock].pc
                /\ r.pc \in Serving
                /\ r.sig = rkvProc[rkvSock].sig
  BY DEF stop, Pings, DaemonInv, DaemonTypes, ProcRecord
<1>2. rkvProc' = IF answer THEN [rkvProc EXCEPT ![rkvSock] = r] ELSE rkvProc
  BY DEF stop
<1> HIDE DEF r
<1>3. DaemonTypes'
  BY <1>1, <1>2 DEF stop, Operator, DaemonInv, DaemonTypes
<1>4. ASSUME ~rkvDoubt, NEW e \in RkvProcess, rkvProc'[e].pc # "gone" PROVE Known(e)'
  <2>1. rkvProc'[e].pc = rkvProc[e].pc /\ rkvProc'[e].sig = rkvProc[e].sig
    BY <1>1, <1>2 DEF DaemonInv, DaemonTypes
  <2>2. Known(e) /\ rkvOper.pc = "idle"
    BY <1>4, <2>1 DEF DaemonInv, stop
  <2> QED BY <2>1, <2>2 DEF Known, stop, Operator
<1> QED BY <1>3, <1>4 DEF DaemonInv, stop

LEMMA OperatorKills ==
    ASSUME DaemonInv, stop_Kill
    PROVE  DaemonInv'
<1> DEFINE d == rkvOper.pid
           r == IF rkvProc[d].pc \in {"opening", "unlinked"} THEN RkvGone
                ELSE [rkvProc[d] EXCEPT !.sig = TRUE]
<1>1. /\ d \in RkvProcess /\ r \in ProcRecord
      /\ r.pc = IF rkvProc[d].pc \in {"opening", "unlinked"} THEN "gone" ELSE rkvProc[d].pc
  BY GoneTyped DEF stop_Kill, Alive, DaemonInv, DaemonTypes, ProcRecord
<1>2. rkvProc' = [rkvProc EXCEPT ![d] = r] /\ rkvOper' = [pc |-> "killed", pid |-> d]
  BY DEF stop_Kill, Operator
<1> HIDE DEF r
<1>3. DaemonTypes'
  <2>1. rkvProc' \in [RkvProcess -> ProcRecord]
    BY <1>1, <1>2 DEF DaemonInv, DaemonTypes
  <2> HIDE DEF d
  <2> QED BY <1>1, <1>2, <2>1 DEF stop_Kill, DaemonInv, DaemonTypes
<1>4. ASSUME ~rkvDoubt, NEW e \in RkvProcess, rkvProc'[e].pc # "gone" PROVE Known(e)'
  <2>1. rkvProc'[e].pc = rkvProc[e].pc
    BY <1>1, <1>2, <1>4 DEF DaemonInv, DaemonTypes
  <2>2. Known(e) /\ rkvOper.pc = "waiting"
    BY <1>4, <2>1 DEF DaemonInv, stop_Kill
  <2> QED BY <1>2, <2>1, <2>2 DEF Known, stop_Kill
<1> QED BY <1>3, <1>4 DEF DaemonInv, stop_Kill

LEMMA OperatorCleans ==
    ASSUME DaemonInv, stop_Cleanup
    PROVE  DaemonInv'
<1>1. DaemonTypes'
  BY DEF stop_Cleanup, Operator, DaemonInv, DaemonTypes, Alive, MissedLive
<1>2. ASSUME ~rkvDoubt', NEW e \in RkvProcess, rkvProc'[e].pc # "gone" PROVE FALSE
  <2>1. Known(e) /\ rkvOper.pc # "idle"
    BY <1>2 DEF stop_Cleanup, DaemonInv
  <2> QED BY <1>2, <2>1, RkvAssumption DEF stop_Cleanup, Known, Alive
<1> QED BY <1>1, <1>2 DEF DaemonInv

LEMMA DaemonStep == DaemonInv /\ [RkvNext]_rkvVars => DaemonInv'
<1> SUFFICES ASSUME DaemonInv, [RkvNext]_rkvVars PROVE DaemonInv'
  OBVIOUS
<1>u. ASSUME UNCHANGED <<rkvSock, rkvPid, rkvProc, rkvOper, rkvDoubt>> PROVE DaemonInv'
  BY <1>u DEF DaemonInv, DaemonTypes, Known
<1>1. CASE \E c \in RkvClient, verb \in RkvVerb, forwardable \in BOOLEAN :
              try_forward(c, verb, forwardable)
  BY <1>1, <1>u DEF try_forward
<1>2. CASE \E c \in RkvClient :
              try_forward_Sends(c) \/ try_forward_Fails(c) \/ Direct(c) \/ Exit(c)
  BY <1>2, <1>u DEF try_forward_Sends, try_forward_Fails, Direct, Exit
<1>3. ASSUME NEW d \in RkvProcess, RkvServes(d) PROVE DaemonInv'
  BY <1>3, DaemonServes
<1>4. ASSUME NEW d \in RkvProcess, RkvCrash(d) PROVE DaemonInv'
  BY <1>4, GoneStep DEF RkvCrash
<1>5. ASSUME NEW d \in RkvProcess, start_Spawn(d) PROVE DaemonInv'
  BY <1>5, OperatorSpawns
<1>6. ASSUME NEW d \in RkvProcess, NEW c \in RkvClient, incoming(d, c) PROVE DaemonInv'
  BY <1>6, DaemonAccepts
<1>7. ASSUME NEW answer \in BOOLEAN, start(answer) \/ start_Waited(answer) \/ stop(answer)
      PROVE  DaemonInv'
  BY <1>7, OperatorStarts, OperatorWaited, OperatorStops
<1>8. CASE stop_Kill \/ stop_Cleanup
  BY <1>8, OperatorKills, OperatorCleans
<1>9. CASE UNCHANGED rkvVars
  BY <1>9, <1>u DEF rkvVars
<1> QED BY <1>1, <1>2, <1>3, <1>4, <1>5, <1>6, <1>7, <1>8, <1>9 DEF RkvNext

(*********************************************************************************)
(* daemon.rs "Refuses to start a second daemon" holds for any number of commands *)
(* and of daemon processes, unless a live daemon was taken for dead.             *)
(*********************************************************************************)
THEOREM DaemonIsUnique == RkvSpec => []RkvOneDaemon
<1>1. DaemonInv => RkvOneDaemon
  <2> SUFFICES ASSUME DaemonInv, ~rkvDoubt PROVE RkvOneDaemon
    BY DEF RkvOneDaemon
  <2>1. \A d \in RkvProcess : rkvProc[d].pc # "gone" => Known(d)
    BY DEF DaemonInv
  <2> QED BY <2>1 DEF RkvOneDaemon, Alive, Known, Serving
<1> QED BY <1>1, DaemonInitial, DaemonStep, PTL DEF RkvSpec

--------------------------------------------------------------------------------

CmdRecord ==
    [pc : {"idle", "pinging", "live", "sent", "direct", "reread", "ok", "error"},
     verb : RkvVerb, to : RkvProcess \cup {RkvNone}, probed : RkvLength \cup {RkvNone},
     ran : Nat, whole : BOOLEAN]

\* What a connection says of the command at its other end: whether the command can still
\* act on its own, and that the daemon has not acted for it yet.
ConnInv(d) ==
    LET c == rkvProc[d].conn
    IN  IF c = RkvNone THEN rkvProc[d].pc \notin {"ping", "read", "op", "reread"}
        ELSE /\ rkvProc[d].pc \in {"ping", "read", "op", "reread"}
             /\ rkvCmd[c].pc # "idle"
             /\ rkvCmd[c].pc \in {"pinging", "live", "sent"} => rkvCmd[c].to = d
             /\ rkvProc[d].pc = "ping" => rkvCmd[c].pc \notin {"live", "sent"}
             /\ rkvProc[d].pc = "read" =>
                   rkvCmd[c].pc \in {"live", "sent", "error"} /\ rkvCmd[c].ran = 0
             /\ rkvProc[d].pc \in {"op", "reread"} =>
                   rkvCmd[c].pc \in {"sent", "error"} /\ rkvCmd[c].ran = 0
             /\ rkvProc[d].pc = "reread" => rkvCmd[c].verb = "get"

CmdInv(c) ==
    /\ rkvCmd[c].pc \in {"idle", "pinging", "live", "sent", "direct", "reread"} =>
          rkvCmd[c].ran = 0
    /\ rkvCmd[c].ran <= 1
    /\ rkvCmd[c].pc = "reread" => rkvCmd[c].verb = "get"
    /\ rkvCmd[c].pc = "ok" /\ rkvCmd[c].verb = "store" => rkvCmd[c].ran = 1
    /\ rkvCmd[c].whole

\* The inductive invariant of the commands.  A command has one connection.
CommandInv ==
    /\ DaemonTypes
    /\ rkvCmd \in [RkvClient -> CmdRecord]
    /\ \A c \in RkvClient : CmdInv(c)
    /\ \A d \in RkvProcess : ConnInv(d)
    /\ \A d, e \in RkvProcess :
          rkvProc[d].conn = rkvProc[e].conn /\ d # e => rkvProc[d].conn = RkvNone

LEMMA CommandInitial == RkvInit => CommandInv
<1> HAVE RkvInit
<1>1. RkvIdle \in CmdRecord /\ RkvIdle.ran = 0 /\ RkvIdle.whole /\ RkvIdle.pc = "idle"
  BY DEF RkvIdle, CmdRecord, RkvVerb
<1>2. rkvCmd \in [RkvClient -> CmdRecord] /\ \A c \in RkvClient : rkvCmd[c] = RkvIdle
  BY <1>1 DEF RkvInit
<1>3. \A d \in RkvProcess : rkvProc[d].pc = "gone" /\ rkvProc[d].conn = RkvNone
  BY GoneTyped DEF RkvInit
<1>4. DaemonTypes
  BY DaemonInitial DEF DaemonInv
<1>5. \A c \in RkvClient : CmdInv(c)
  BY <1>1, <1>2, SMT DEF CmdInv
<1>6. \A d \in RkvProcess : ConnInv(d)
  BY <1>3 DEF ConnInv
<1> QED BY <1>2, <1>3, <1>4, <1>5, <1>6 DEF CommandInv

\* Only the command moves; its connection, if any, must still be right about it.
LEMMA CommandMoves ==
    ASSUME CommandInv, DaemonTypes', NEW c \in RkvClient, NEW r \in CmdRecord,
           rkvCmd' = [rkvCmd EXCEPT ![c] = r], rkvProc' = rkvProc,
           CmdInv(c)', \A d \in RkvProcess : rkvProc[d].conn = c => ConnInv(d)'
    PROVE  CommandInv'
<1>1. rkvCmd' \in [RkvClient -> CmdRecord]
  BY DEF CommandInv
<1>2. ASSUME NEW e \in RkvClient PROVE CmdInv(e)'
  BY DEF CommandInv, CmdInv
<1>3. ASSUME NEW d \in RkvProcess PROVE ConnInv(d)'
  <2>1. CASE rkvProc[d].conn # c
    BY <2>1, SMT DEF CommandInv, ConnInv
  <2> QED BY <2>1
<1>4. \A d, e \in RkvProcess :
        rkvProc'[d].conn = rkvProc'[e].conn /\ d # e => rkvProc'[d].conn = RkvNone
  BY DEF CommandInv
<1> QED BY <1>1, <1>2, <1>3, <1>4 DEF CommandInv

\* A daemon moves, and at most the command of its connection with it.
LEMMA ConnectionMoves ==
    ASSUME CommandInv, DaemonTypes', NEW d \in RkvProcess, NEW r \in ProcRecord,
           rkvProc' = [rkvProc EXCEPT ![d] = r], r.conn \in {RkvNone, rkvProc[d].conn},
           \/ rkvCmd' = rkvCmd
           \/ \E c \in RkvClient, q \in CmdRecord :
                 c = rkvProc[d].conn /\ rkvCmd' = [rkvCmd EXCEPT ![c] = q] /\ CmdInv(c)',
           ConnInv(d)'
    PROVE  CommandInv'
<1>0. rkvProc'[d] = r /\ \A e \in RkvProcess \ {d} : rkvProc'[e] = rkvProc[e]
  BY DEF CommandInv, DaemonTypes
<1>1. rkvCmd' \in [RkvClient -> CmdRecord]
  BY DEF CommandInv
<1>2. \A e \in RkvClient : e # rkvProc[d].conn => rkvCmd'[e] = rkvCmd[e]
  BY DEF CommandInv
<1>3. ASSUME NEW e \in RkvClient PROVE CmdInv(e)'
  <2>1. CASE rkvCmd'[e] = rkvCmd[e]
    BY <2>1 DEF CommandInv, CmdInv
  <2>2. CASE rkvCmd'[e] # rkvCmd[e]
    <3>1. e = rkvProc[d].conn
      BY <1>2, <2>2
    <3> QED BY <2>2, <3>1
  <2> QED BY <2>1, <2>2
<1>4. ASSUME NEW e \in RkvProcess PROVE ConnInv(e)'
  <2>1. CASE e # d
    <3>1. rkvProc[e].conn = RkvNone \/ rkvProc[e].conn # rkvProc[d].conn
      BY <2>1 DEF CommandInv
    <3>2. rkvProc[e].conn \in RkvClient \cup {RkvNone} /\ ConnInv(e)
      BY DEF CommandInv, DaemonTypes, ProcRecord
    <3>3. rkvProc[e].conn = RkvNone \/ rkvCmd'[rkvProc[e].conn] = rkvCmd[rkvProc[e].conn]
      BY <1>2, <3>1, <3>2
    <3> QED BY <1>0, <2>1, <3>2, <3>3, SMT DEF ConnInv
  <2> QED BY <2>1
<1>5. \A e, g \in RkvProcess :
        rkvProc'[e].conn = rkvProc'[g].conn /\ e # g => rkvProc'[e].conn = RkvNone
  BY <1>0, SMT DEF CommandInv
<1> QED BY <1>1, <1>3, <1>4, <1>5 DEF CommandInv

\* The connection ends.
LEMMA HangsUpStep ==
    ASSUME CommandInv, DaemonTypes', NEW d \in RkvProcess, HangsUp(d),
           \/ rkvCmd' = rkvCmd
           \/ \E c \in RkvClient, q \in CmdRecord :
                 c = rkvProc[d].conn /\ rkvCmd' = [rkvCmd EXCEPT ![c] = q] /\ CmdInv(c)'
    PROVE  CommandInv'
<1> DEFINE r == [rkvProc[d] EXCEPT !.pc = "accept", !.conn = RkvNone, !.probed = RkvNone]
<1>0. rkvProc[d] \in ProcRecord
  BY DEF CommandInv, DaemonTypes
<1>1. r \in ProcRecord /\ r.conn = RkvNone /\ r.pc = "accept"
  BY <1>0 DEF ProcRecord, Serving
<1>2. rkvProc' = [rkvProc EXCEPT ![d] = r] /\ rkvProc'[d] = r
  BY DEF HangsUp, CommandInv, DaemonTypes
<1> HIDE DEF r
<1>3. ConnInv(d)'
  BY <1>1, <1>2 DEF ConnInv
<1> QED BY <1>1, <1>2, <1>3, ConnectionMoves

LEMMA GoneKeepsCommands ==
    ASSUME CommandInv, DaemonTypes', NEW d \in RkvProcess,
           NEW r \in {RkvGone, [RkvGone EXCEPT !.pc = "opening"]},
           rkvProc' = [rkvProc EXCEPT ![d] = r], rkvCmd' = rkvCmd
    PROVE  CommandInv'
<1>1. r \in ProcRecord /\ r.conn = RkvNone /\ r.pc \in {"gone", "opening"}
  <2>1. CASE r = RkvGone
    BY <2>1, GoneTyped
  <2>2. CASE r = [RkvGone EXCEPT !.pc = "opening"]
    BY <2>2 DEF RkvGone, ProcRecord
  <2> QED BY <2>1, <2>2
<1>2. rkvProc'[d] = r
  BY DEF CommandInv, DaemonTypes
<1>3. ConnInv(d)'
  BY <1>1, <1>2 DEF ConnInv
<1> QED BY <1>1, <1>3, ConnectionMoves

\* A flag of a process, or its place outside a connection, says nothing of a command.
LEMMA PlaceKeepsCommands ==
    ASSUME CommandInv, DaemonTypes', NEW d \in RkvProcess, NEW r \in ProcRecord,
           rkvProc' = [rkvProc EXCEPT ![d] = r], rkvCmd' = rkvCmd,
           r.conn = rkvProc[d].conn,
           \/ r.pc = rkvProc[d].pc
           \/ /\ rkvProc[d].pc \notin {"ping", "read", "op", "reread"}
              /\ r.pc \notin {"ping", "read", "op", "reread"}
    PROVE  CommandInv'
<1>1. rkvProc'[d] = r
  BY DEF CommandInv, DaemonTypes
<1>2. ConnInv(d)'
  BY <1>1, SMT DEF CommandInv, ConnInv
<1> QED BY <1>2, ConnectionMoves

LEMMA CommandForwards ==
    ASSUME CommandInv, DaemonTypes', NEW c \in RkvClient, NEW verb \in RkvVerb,
           NEW forwardable \in BOOLEAN, try_forward(c, verb, forwardable)
    PROVE  CommandInv'
<1> DEFINE found == forwardable /\ rkvSock # RkvNone /\ Listening(rkvSock)
           r == [RkvIdle EXCEPT !.verb = verb, !.pc = IF found THEN "pinging" ELSE "direct",
                                !.to = IF found THEN rkvSock ELSE RkvNone]
<1>1. /\ r \in CmdRecord /\ r.ran = 0 /\ r.whole
      /\ r.pc \in {"pinging", "direct"}
  BY DEF RkvIdle, CmdRecord, CommandInv, DaemonTypes
<1>2. rkvCmd' = [rkvCmd EXCEPT ![c] = r] /\ rkvProc' = rkvProc
  BY DEF try_forward
<1> HIDE DEF found, r
<1>3. rkvCmd'[c] = r
  BY <1>2 DEF CommandInv
<1>4. CmdInv(c)'
  BY <1>1, <1>3, SMT DEF CmdInv
<1>5. \A d \in RkvProcess : rkvProc[d].conn # c
  BY RkvAssumption, SMT DEF try_forward, CommandInv, ConnInv
<1> QED BY <1>1, <1>2, <1>4, <1>5, CommandMoves

LEMMA CommandActs ==
    ASSUME CommandInv, DaemonTypes', NEW c \in RkvClient,
           try_forward_Sends(c) \/ try_forward_Fails(c) \/ Direct(c) \/ Exit(c)
    PROVE  CommandInv'
<1>t. rkvCmd[c] \in CmdRecord /\ CmdInv(c) /\ rkvCmd[c].ran \in Nat
  BY DEF CommandInv, CmdRecord
<1>m. ASSUME NEW r \in CmdRecord, rkvCmd' = [rkvCmd EXCEPT ![c] = r], rkvProc' = rkvProc,
             CmdInv(c)', \A d \in RkvProcess : rkvProc[d].conn = c => ConnInv(d)'
      PROVE  CommandInv'
  BY <1>m, CommandMoves
<1>1. CASE try_forward_Sends(c)
  <2> DEFINE r == [rkvCmd[c] EXCEPT !.pc = "sent"]
  <2>1. /\ r \in CmdRecord /\ r.pc = "sent" /\ r.ran = 0 /\ r.whole
        /\ r.to = rkvCmd[c].to /\ r.verb = rkvCmd[c].verb
    BY <1>1, <1>t DEF CmdRecord, CmdInv, try_forward_Sends
  <2>2. rkvCmd' = [rkvCmd EXCEPT ![c] = r] /\ rkvCmd'[c] = r /\ rkvProc' = rkvProc
    BY <1>1 DEF try_forward_Sends, CommandInv
  <2> HIDE DEF r
  <2>3. CmdInv(c)'
    BY <2>1, <2>2, SMT DEF CmdInv
  <2>4. \A d \in RkvProcess : rkvProc[d].conn = c => ConnInv(d)'
    BY <1>1, <2>1, <2>2, SMT DEF try_forward_Sends, CommandInv, ConnInv
  <2> QED BY <1>m, <2>1, <2>2, <2>3, <2>4
<1>2. CASE try_forward_Fails(c)
  <2> DEFINE r == [rkvCmd[c] EXCEPT !.pc = IF rkvCmd[c].pc = "pinging" THEN "direct" ELSE "error",
                                    !.to = RkvNone]
  <2>1. /\ r \in CmdRecord /\ r.ran = 0 /\ r.whole
        /\ r.pc = IF rkvCmd[c].pc = "pinging" THEN "direct" ELSE "error"
        /\ r.verb = rkvCmd[c].verb
    BY <1>2, <1>t DEF CmdRecord, CmdInv, try_forward_Fails
  <2>2. rkvCmd' = [rkvCmd EXCEPT ![c] = r] /\ rkvCmd'[c] = r /\ rkvProc' = rkvProc
    BY <1>2 DEF try_forward_Fails, CommandInv
  <2> HIDE DEF r
  <2>3. CmdInv(c)'
    BY <2>1, <2>2, SMT DEF CmdInv
  <2>4. \A d \in RkvProcess : rkvProc[d].conn = c => ConnInv(d)'
    BY <1>2, <2>1, <2>2, SMT DEF try_forward_Fails, CommandInv, ConnInv
  <2> QED BY <1>m, <2>1, <2>2, <2>3, <2>4
<1>3. CASE Direct(c)
  <2>0. rkvCmd[c].pc \in {"direct", "reread"}
    BY <1>3 DEF Direct
  <2>1. \A d \in RkvProcess : rkvProc[d].conn = c => rkvProc[d].pc = "ping"
    BY <2>0, RkvAssumption DEF CommandInv, ConnInv
  <2> USE <1>3, <1>t DEF Direct, CmdRecord
  <2> DEFINE Fine(r) ==
        /\ r \in CmdRecord
        /\ r.whole /\ r.ran <= 1 /\ r.verb = rkvCmd[c].verb /\ r.pc \in {"reread", "ok", "error"}
        /\ r.pc = "reread" => r.ran = 0 /\ r.verb = "get"
        /\ r.pc = "ok" /\ r.verb = "store" => r.ran = 1
  <2>f. Fine(RkvFailed(c))
    BY DEF RkvFailed, CmdInv
  <2>p. ASSUME NEW len \in RkvLength, rkvCmd[c].pc = "direct", ~NeedsReread(c, len)
        PROVE  Fine(FirstPass(c, len))
    <3>1. CASE rkvCmd[c].verb = "store"
      <4>1. rkvCmd[c].ran = 0 /\ rkvCmd[c].whole /\ rkvCmd[c] \in CmdRecord
        BY ONLY <1>t, <2>p DEF CmdInv
      <4>2. FirstPass(c, len) = [rkvCmd[c] EXCEPT !.pc = "ok", !.ran = 1]
        BY ONLY <4>1, <3>1 DEF FirstPass
      <4> DEFINE r == [rkvCmd[c] EXCEPT !.pc = "ok", !.ran = 1]
      <4>3. r \in CmdRecord /\ r.pc = "ok" /\ r.ran = 1 /\ r.whole /\ r.verb = rkvCmd[c].verb
        BY ONLY <4>1, Zenon DEF CmdRecord
      <4> HIDE DEF r
      <4> QED BY ONLY <4>2, <4>3 DEF r
    <3>2. CASE rkvCmd[c].verb # "store"
      BY <2>p, <3>2 DEF FirstPass, CmdInv
    <3> QED BY <3>1, <3>2
  <2>r. ASSUME NEW len \in RkvLength, rkvCmd[c].pc = "direct", NeedsReread(c, len)
        PROVE  Fine([rkvCmd[c] EXCEPT !.pc = "reread", !.probed = len])
    BY <2>r DEF NeedsReread, CmdInv
  <2>s. ASSUME NEW len \in RkvLength, rkvCmd[c].pc = "reread"
        PROVE  Fine(SecondPass(c, len, rkvCmd[c].probed))
    <3>1. CASE SizeAgrees(rkvCmd[c].probed, len)
      BY <2>s, <3>1 DEF SecondPass, SizeAgrees, CmdInv
    <3>2. CASE ~SizeAgrees(rkvCmd[c].probed, len)
      BY <2>f, <3>2 DEF SecondPass
    <3> QED BY <3>1, <3>2
  <2> HIDE DEF Fine
  <2>2. \E r : rkvCmd' = [rkvCmd EXCEPT ![c] = r] /\ Fine(r)
    <3>1. CASE rkvCmd' = [rkvCmd EXCEPT ![c] = RkvFailed(c)]
      BY <3>1, <2>f
    <3>2. ASSUME NEW len \in RkvLength, rkvCmd[c].pc = "direct",
                 rkvCmd' = [rkvCmd EXCEPT ![c] =
                    IF NeedsReread(c, len) THEN [rkvCmd[c] EXCEPT !.pc = "reread", !.probed = len]
                    ELSE FirstPass(c, len)]
          PROVE  <2>2
      BY <3>2, <2>p, <2>r
    <3>3. ASSUME NEW len \in RkvLength, rkvCmd[c].pc = "reread",
                 rkvCmd' = [rkvCmd EXCEPT ![c] = SecondPass(c, len, rkvCmd[c].probed)]
          PROVE  <2>2
      BY <3>3, <2>s
    <3> QED BY <3>1, <3>2, <3>3
  <2>q. PICK r : rkvCmd' = [rkvCmd EXCEPT ![c] = r] /\ Fine(r)
    BY <2>2
  <2>3. rkvCmd'[c] = r /\ rkvProc' = rkvProc
    BY <2>q DEF CommandInv
  <2>4. CmdInv(c)'
    BY <2>q, <2>3 DEF CmdInv, Fine
  <2>r1. r.pc \in {"reread", "ok", "error"}
    BY <2>q DEF Fine
  <2>5. ASSUME NEW d \in RkvProcess, rkvProc[d].conn = c PROVE ConnInv(d)'
    <3>1. rkvProc'[d].conn = c /\ rkvProc'[d].pc = "ping" /\ c # RkvNone
      BY <2>1, <2>3, <2>5, RkvAssumption
    <3> QED BY ONLY <2>r1, <2>3, <3>1 DEF ConnInv
  <2> QED BY <1>m, <2>q, <2>3, <2>4, <2>5 DEF Fine
<1>4. CASE Exit(c)
  <2>1. /\ RkvIdle \in CmdRecord /\ RkvIdle.ran = 0 /\ RkvIdle.whole
        /\ RkvIdle.pc = "idle"
    BY DEF RkvIdle, CmdRecord, RkvVerb
  <2>2. rkvCmd'[c] = RkvIdle
    BY <1>4 DEF Exit, CommandInv
  <2>3. CmdInv(c)'
    BY <2>1, <2>2, SMT DEF CmdInv
  <2> QED BY <1>4, <1>m, <2>1, <2>3 DEF Exit
<1> QED BY <1>1, <1>2, <1>3, <1>4

LEMMA CommandAccepted ==
    ASSUME CommandInv, DaemonTypes', NEW d \in RkvProcess, NEW c \in RkvClient, incoming(d, c)
    PROVE  CommandInv'
<1> DEFINE r == [rkvProc[d] EXCEPT !.pc = "ping", !.conn = c]
<1>0. rkvProc[d] \in ProcRecord /\ c # RkvNone /\ rkvProc[d].pc = "accept"
      /\ rkvCmd[c].pc = "pinging" /\ rkvCmd[c].to = d
  BY RkvAssumption DEF CommandInv, DaemonTypes, incoming
<1>1. r \in ProcRecord /\ r.conn = c /\ r.pc = "ping"
  BY <1>0 DEF ProcRecord, Serving
<1>2. /\ rkvProc'[d] = r /\ rkvCmd' = rkvCmd
      /\ \A e \in RkvProcess \ {d} : rkvProc'[e] = rkvProc[e]
  BY DEF incoming, CommandInv, DaemonTypes
<1> HIDE DEF r
<1>3. \A e \in RkvProcess : rkvProc[e].conn # c
  BY <1>0, SMT DEF CommandInv, ConnInv
<1>4. ConnInv(d)'
  BY <1>0, <1>1, <1>2 DEF ConnInv
<1>5. \A e \in RkvProcess : ConnInv(e)'
  BY <1>2, <1>4, SMT DEF CommandInv, ConnInv
<1>6. \A e, g \in RkvProcess :
        rkvProc'[e].conn = rkvProc'[g].conn /\ e # g => rkvProc'[e].conn = RkvNone
  BY <1>1, <1>2, <1>3 DEF CommandInv
<1> QED BY <1>2, <1>5, <1>6 DEF CommandInv, CmdInv

\* What Answered leaves of the command of a connection that has its request.
LEMMA AnsweredTyped ==
    ASSUME CommandInv, NEW c \in RkvClient, NEW record \in CmdRecord, Answered(c, record),
           rkvCmd[c].pc \in {"sent", "error"},
           record.pc \in {"ok", "error"}, record.whole, record.ran <= 1,
           record.pc = "ok" /\ record.verb = "store" => record.ran = 1
    PROVE  (\E q \in CmdRecord : rkvCmd' = [rkvCmd EXCEPT ![c] = q]) /\ CmdInv(c)'
<1>1. rkvCmd[c] \in CmdRecord /\ CmdInv(c)
  BY DEF CommandInv
<1>2. CASE rkvCmd[c].pc = "sent"
  <2>1. rkvCmd' = [rkvCmd EXCEPT ![c] = record] /\ rkvCmd'[c] = record
    BY <1>2 DEF Answered, CommandInv
  <2> QED BY <2>1 DEF CmdInv
<1>3. CASE rkvCmd[c].pc = "error"
  <2> DEFINE r == [rkvCmd[c] EXCEPT !.ran = record.ran]
  <2>1. r \in CmdRecord /\ r.pc = "error" /\ r.whole /\ r.ran = record.ran
    BY <1>1, <1>3 DEF CmdRecord, CmdInv
  <2>2. rkvCmd' = [rkvCmd EXCEPT ![c] = r] /\ rkvCmd'[c] = r
    BY <1>3 DEF Answered, CommandInv
  <2> HIDE DEF r
  <2> QED BY <2>1, <2>2 DEF CmdInv
<1> QED BY <1>2, <1>3

LEMMA CommandIsServed ==
    ASSUME CommandInv, DaemonTypes', NEW d \in RkvProcess, serve_op(d)
    PROVE  CommandInv'
<1> DEFINE c == rkvProc[d].conn
<1>0. /\ rkvProc[d] \in ProcRecord /\ rkvProc[d].pc \in {"op", "reread"} /\ ConnInv(d)
  BY DEF CommandInv, DaemonTypes, serve_op
<1>1. PICK k \in RkvClient : k = c
  BY <1>0 DEF ConnInv, ProcRecord
<1>2. /\ rkvCmd[k] \in CmdRecord /\ CmdInv(k) /\ rkvCmd[k].ran = 0
      /\ rkvCmd[k].pc \in {"sent", "error"} /\ k # RkvNone
      /\ rkvProc[d].pc = "reread" => rkvCmd[k].verb = "get"
  BY <1>0, <1>1, RkvAssumption DEF CommandInv, ConnInv
<1>a. ASSUME NEW record \in CmdRecord, Answered(k, record), HangsUp(d),
             record.pc \in {"ok", "error"}, record.whole, record.ran <= 1,
             record.pc = "ok" /\ record.verb = "store" => record.ran = 1
      PROVE  CommandInv'
  <2>1. (\E q \in CmdRecord : rkvCmd' = [rkvCmd EXCEPT ![k] = q]) /\ CmdInv(k)'
    BY <1>a, <1>2, AnsweredTyped
  <2> QED BY <1>1, <1>a, <2>1, HangsUpStep
<1>f. /\ RkvFailed(k) \in CmdRecord /\ RkvFailed(k).pc = "error"
      /\ RkvFailed(k).whole /\ RkvFailed(k).ran = 0
  BY <1>2 DEF RkvFailed, CmdRecord, CmdInv
<1>3. CASE Answered(k, RkvFailed(k)) /\ HangsUp(d)
  BY <1>3, <1>a, <1>f, SMT
<1>4. ASSUME NEW len \in RkvLength, ~NeedsReread(k, len),
             Answered(k, FirstPass(k, len)), HangsUp(d)
      PROVE  CommandInv'
  <2> DEFINE r == FirstPass(k, len)
  <2>1. CASE rkvCmd[k].verb = "store"
    <3>1. r = [rkvCmd[k] EXCEPT !.pc = "ok", !.ran = 1]
      BY <1>2, <2>1, SMT DEF FirstPass
    <3> HIDE DEF r
    <3>2. r \in CmdRecord /\ r.pc = "ok" /\ r.ran = 1 /\ r.whole
      BY <1>2, <3>1 DEF CmdRecord, CmdInv
    <3> QED BY <1>4, <1>a, <3>2, SMT DEF r
  <2>2. CASE rkvCmd[k].verb # "store"
    <3>1. /\ r \in CmdRecord /\ r.pc \in {"ok", "error"} /\ r.ran = 0 /\ r.whole
          /\ r.verb # "store"
      BY <1>2, <2>2 DEF FirstPass, CmdRecord, CmdInv
    <3> HIDE DEF r
    <3> QED BY <1>4, <1>a, <3>1, SMT DEF r
  <2> QED BY <2>1, <2>2
<1>5. ASSUME NEW len \in RkvLength, NeedsReread(k, len), rkvCmd' = rkvCmd,
             rkvProc' = [rkvProc EXCEPT ![d] =
                            [rkvProc[d] EXCEPT !.pc = "reread", !.probed = len]]
      PROVE  CommandInv'
  <2> DEFINE r == [rkvProc[d] EXCEPT !.pc = "reread", !.probed = len]
  <2>1. r \in ProcRecord /\ r.pc = "reread" /\ r.conn = k
    BY <1>0, <1>1 DEF ProcRecord, Serving
  <2>2. rkvProc' = [rkvProc EXCEPT ![d] = r] /\ rkvProc'[d] = r
    BY <1>5 DEF CommandInv, DaemonTypes
  <2> HIDE DEF r
  <2>3. ConnInv(d)'
    BY <1>0, <1>1, <1>2, <1>5, <2>1, <2>2, SMT DEF ConnInv, NeedsReread
  <2> QED BY <1>1, <1>5, <2>1, <2>2, <2>3, ConnectionMoves
<1>6. ASSUME NEW len \in RkvLength, rkvProc[d].pc = "reread",
             Answered(k, SecondPass(k, len, rkvProc[d].probed)), HangsUp(d)
      PROVE  CommandInv'
  <2> DEFINE r == SecondPass(k, len, rkvProc[d].probed)
  <2>1. CASE SizeAgrees(rkvProc[d].probed, len)
    <3>1. r \in CmdRecord /\ r.pc = "ok" /\ r.ran = 0 /\ r.whole /\ r.verb = "get"
      BY <1>2, <1>6, <2>1 DEF SecondPass, SizeAgrees, CmdRecord
    <3> HIDE DEF r
    <3> QED BY <1>6, <1>a, <3>1, SMT DEF r
  <2>2. CASE ~SizeAgrees(rkvProc[d].probed, len)
    BY <1>3, <1>6, <2>2 DEF SecondPass
  <2> QED BY <2>1, <2>2
<1>7. \/ Answered(k, RkvFailed(k)) /\ HangsUp(d)
      \/ /\ rkvProc[d].pc = "op"
         /\ \E len \in RkvLength :
               IF NeedsReread(k, len)
               THEN rkvProc' = [rkvProc EXCEPT ![d] =
                                   [rkvProc[d] EXCEPT !.pc = "reread", !.probed = len]]
                    /\ rkvCmd' = rkvCmd
               ELSE Answered(k, FirstPass(k, len)) /\ HangsUp(d)
      \/ /\ rkvProc[d].pc = "reread"
         /\ \E len \in RkvLength : Answered(k, SecondPass(k, len, rkvProc[d].probed))
         /\ HangsUp(d)
  BY <1>1 DEF serve_op
<1> QED BY <1>3, <1>4, <1>5, <1>6, <1>7

LEMMA CommandStep ==
    ASSUME CommandInv, DaemonTypes', [RkvNext]_rkvVars
    PROVE  CommandInv'
<1>t. \A d \in RkvProcess : rkvProc[d] \in ProcRecord
  BY DEF CommandInv, DaemonTypes
<1>u. ASSUME UNCHANGED <<rkvProc, rkvCmd>> PROVE CommandInv'
  BY <1>u DEF CommandInv, CmdInv, ConnInv
<1>p. ASSUME NEW d \in RkvProcess, NEW pc \in {"unlinked", "accept", "dropping"}, Move(d, pc),
             rkvProc[d].pc \in {"opening", "unlinked", "accept"}, rkvCmd' = rkvCmd
      PROVE  CommandInv'
  <2> DEFINE r == [rkvProc[d] EXCEPT !.pc = pc]
  <2>1. r \in ProcRecord /\ r.pc = pc /\ r.conn = rkvProc[d].conn
    BY <1>t DEF ProcRecord, Serving
  <2>2. rkvProc' = [rkvProc EXCEPT ![d] = r]
    BY <1>p DEF Move
  <2> HIDE DEF r
  <2> QED BY <1>p, <2>1, <2>2, PlaceKeepsCommands
<1>1. ASSUME NEW d \in RkvProcess, run_Open(d) \/ run_Bind(d) \/ run_Ends(d)
      PROVE  CommandInv'
  BY <1>1, <1>p, GoneKeepsCommands DEF run_Open, run_Bind, run_Ends
<1>2. ASSUME NEW d \in RkvProcess, run_Exits(d) \/ RkvCrash(d) \/ start_Spawn(d)
      PROVE  CommandInv'
  BY <1>2, GoneKeepsCommands DEF run_Exits, RkvCrash, start_Spawn
<1>3. ASSUME NEW d \in RkvProcess, handle_conn_Ends(d) PROVE CommandInv'
  BY <1>3, HangsUpStep DEF handle_conn_Ends
<1>4. ASSUME NEW d \in RkvProcess, handle_conn_Ping(d) PROVE CommandInv'
  <2>1. PICK c \in RkvClient : c = rkvProc[d].conn
    BY <1>4, <1>t DEF handle_conn_Ping, CommandInv, ConnInv, ProcRecord
  <2> DEFINE r == [rkvProc[d] EXCEPT !.pc = "read"]
             q == [rkvCmd[c] EXCEPT !.pc = "live"]
  <2>2. r \in ProcRecord /\ r.pc = "read" /\ r.conn = c
    BY <1>t, <2>1 DEF ProcRecord, Serving
  <2>3. rkvCmd[c] \in CmdRecord /\ CmdInv(c) /\ rkvCmd[c].pc = "pinging" /\ ConnInv(d)
    BY <1>4, <2>1 DEF CommandInv, handle_conn_Ping
  <2>4. /\ q \in CmdRecord /\ q.pc = "live" /\ q.ran = 0 /\ q.whole
        /\ q.to = rkvCmd[c].to /\ q.verb = rkvCmd[c].verb
    BY <2>3 DEF CmdRecord, CmdInv
  <2>5. /\ rkvProc' = [rkvProc EXCEPT ![d] = r] /\ rkvProc'[d] = r
        /\ rkvCmd' = [rkvCmd EXCEPT ![c] = q] /\ rkvCmd'[c] = q
    BY <1>4, <2>1 DEF handle_conn_Ping, Move, CommandInv, DaemonTypes
  <2> HIDE DEF r, q
  <2>6. CmdInv(c)' /\ c # RkvNone
    BY <2>4, <2>5, RkvAssumption, SMT DEF CmdInv
  <2>7. ConnInv(d)'
    BY <2>1, <2>2, <2>3, <2>4, <2>5, <2>6 DEF ConnInv
  <2> QED BY <2>1, <2>2, <2>4, <2>5, <2>6, <2>7, ConnectionMoves
<1>5. ASSUME NEW d \in RkvProcess, handle_conn_Request(d) PROVE CommandInv'
  <2> DEFINE r == [rkvProc[d] EXCEPT !.pc = "op"]
  <2>1. r \in ProcRecord /\ r.pc = "op" /\ r.conn = rkvProc[d].conn
    BY <1>t DEF ProcRecord, Serving
  <2>2. rkvProc' = [rkvProc EXCEPT ![d] = r] /\ rkvProc'[d] = r /\ rkvCmd' = rkvCmd
    BY <1>5 DEF handle_conn_Request, Move, CommandInv, DaemonTypes
  <2> HIDE DEF r
  <2>3. ConnInv(d)'
    BY <1>5, <2>1, <2>2, SMT DEF ConnInv, CommandInv, handle_conn_Request
  <2> QED BY <2>1, <2>2, <2>3, ConnectionMoves
<1>6. ASSUME NEW d \in RkvProcess, RkvServes(d) PROVE CommandInv'
  BY <1>1, <1>2, <1>3, <1>4, <1>5, <1>6, CommandIsServed DEF RkvServes
<1>7. ASSUME NEW answer \in BOOLEAN, stop(answer) PROVE CommandInv'
  <2> DEFINE r == [rkvProc[rkvSock] EXCEPT !.shut = TRUE]
  <2>1. CASE answer
    <3>1. PICK d \in RkvProcess : d = rkvSock
      BY <1>7, <2>1 DEF stop, Pings, CommandInv, DaemonTypes
    <3>2. r \in ProcRecord /\ r.pc = rkvProc[d].pc /\ r.conn = rkvProc[d].conn
      BY <1>t, <3>1 DEF ProcRecord
    <3>3. rkvProc' = [rkvProc EXCEPT ![d] = r] /\ rkvCmd' = rkvCmd
      BY <1>7, <2>1, <3>1 DEF stop
    <3> HIDE DEF r
    <3> QED BY <3>2, <3>3, PlaceKeepsCommands
  <2>2. CASE ~answer
    BY <1>7, <1>u, <2>2 DEF stop
  <2> QED BY <2>1, <2>2
<1>8. CASE stop_Kill
  <2>1. PICK d \in RkvProcess : d = rkvOper.pid
    BY <1>8 DEF stop_Kill, Alive, CommandInv, DaemonTypes
  <2>2. CASE rkvProc[d].pc \in {"opening", "unlinked"}
    BY <1>8, <2>1, <2>2, GoneKeepsCommands DEF stop_Kill
  <2>3. CASE rkvProc[d].pc \notin {"opening", "unlinked"}
    <3> DEFINE r == [rkvProc[d] EXCEPT !.sig = TRUE]
    <3>1. r \in ProcRecord /\ r.pc = rkvProc[d].pc /\ r.conn = rkvProc[d].conn
      BY <1>t DEF ProcRecord
    <3>2. rkvProc' = [rkvProc EXCEPT ![d] = r] /\ rkvCmd' = rkvCmd
      BY <1>8, <2>1, <2>3 DEF stop_Kill
    <3> HIDE DEF r
    <3> QED BY <3>1, <3>2, PlaceKeepsCommands
  <2> QED BY <2>2, <2>3
<1>9. ASSUME NEW answer \in BOOLEAN, start(answer) \/ start_Waited(answer) \/ stop_Cleanup
      PROVE  CommandInv'
  BY <1>9, <1>u DEF start, start_Waited, stop_Cleanup
<1>10. CASE UNCHANGED rkvVars
  BY <1>10, <1>u DEF rkvVars
<1> QED BY <1>2, <1>6, <1>7, <1>8, <1>9, <1>10, CommandForwards, CommandActs, CommandAccepted
        DEF RkvNext

LEMMA CommandsStayRight == RkvSpec => []CommandInv
<1>1. DaemonInv /\ CommandInv /\ [RkvNext]_rkvVars => (DaemonInv /\ CommandInv)'
  BY DaemonStep, CommandStep DEF DaemonInv
<1> QED BY <1>1, DaemonInitial, CommandInitial, PTL DEF RkvSpec

(*********************************************************************************)
(* try_forward falls back to a session of its own only before the request is     *)
(* sent, so a Store is applied once whatever the daemons and their operator do:  *)
(* for any number of commands and of daemon processes.                           *)
(*********************************************************************************)
THEOREM StoreIsAppliedOnce == RkvSpec => []RkvStoresOnce
<1>1. CommandInv => RkvStoresOnce
  BY DEF CommandInv, CmdInv, RkvStoresOnce
<1> QED BY <1>1, CommandsStayRight, PTL

(*********************************************************************************)
(* datapath.rs, read twice with others storing in between: a get that succeeds   *)
(* has the whole value, for any lengths and bounds.                              *)
(*********************************************************************************)
THEOREM GetIsNeverTruncated == RkvSpec => []RkvGetIsWhole
<1>1. CommandInv => RkvGetIsWhole
  BY DEF CommandInv, CmdInv, RkvGetIsWhole
<1> QED BY <1>1, CommandsStayRight, PTL

(*********************************************************************************)
(* Both together: what main.rs reports of a command is what was done.            *)
(*********************************************************************************)
THEOREM CommandsAreExact == RkvSpec => []RkvCommandExact
<1>1. ASSUME CommandInv PROVE RkvTypeOK
  <2>1. ASSUME NEW c \in RkvClient PROVE rkvCmd[c].ran \in 0..1
    BY <1>1, SMT DEF CommandInv, CmdInv, CmdRecord
  <2> QED BY <1>1, <2>1 DEF CommandInv, DaemonTypes, ProcRecord, CmdRecord, RkvTypeOK
<1> QED BY <1>1, CommandsStayRight, StoreIsAppliedOnce, GetIsNeverTruncated, PTL
        DEF RkvCommandExact

--------------------------------------------------------------------------------
(*********************************************************************************)
(* The KV forward is safe for any number of ios: transfers keep their            *)
(* memory, a successful read is whole, and no failure leaks.                     *)
(*********************************************************************************)
\* A result that a status promises: all of a value, or the start of one.
Promised(status, part) ==
    /\ status = "SUCCESS" => part = "whole"
    /\ status = "BUFFER_TOO_SMALL" => part = "prefix"

Reads == {"retrieve", "list"}

\* What an io, its resources and its request have to do with each other.
IoInv(c) ==
    /\ kvIo[c].state = "idle" => kvReq[c].state = "none"
    /\ kvIo[c].state \in {"idle", "done"} => kvHeld[c] = {}
    /\ kvIo[c].state \in {"flight", "stranded"} =>
          \E scattered \in BOOLEAN :
              kvHeld[c] = Needs(kvIo[c].verb, kvIo[c].len, scattered)
    /\ kvReq[c].state = "pull" => kvIo[c].verb = "store" /\ kvIo[c].len = "large"
    /\ kvReq[c].state = "push" => /\ kvIo[c].verb \in Reads /\ kvIo[c].len = "large"
                                  /\ Promised(kvReq[c].status, kvReq[c].data.part)
    /\ (kvIo[c].state = "done" /\ kvReq[c].state \in {"sent", "pull", "push"}) =>
          kvFault[c] /\ kvIo[c].cqe = "INTERNAL_DEVICE_ERROR"
    /\ (kvReq[c].state = "answered" /\ kvIo[c].verb \in Reads) =>
          Promised(kvReq[c].status,
                   IF kvReq[c].data.part = "nothing" THEN kvBuf[c].part
                   ELSE kvReq[c].data.part)
          \/ kvIo[c].state = "done"
    /\ (kvIo[c].state = "done" /\ kvIo[c].verb \in Reads) =>
          /\ kvIo[c].cqe = "SUCCESS" => kvBuf[c].part = "whole"
          /\ kvIo[c].cqe = "CAPACITY_EXCEEDED" => kvBuf[c].part = "prefix"

\* The inductive invariant.
KvIInv == KvTypeOK /\ \A c \in KvIo : IoInv(c)

\* An io that a step does not touch keeps its invariant.
LEMMA Elsewhere ==
    ASSUME NEW d \in KvIo, IoInv(d),
           kvIo'[d] = kvIo[d], kvHeld'[d] = kvHeld[d], kvBuf'[d] = kvBuf[d],
           kvReq'[d] = kvReq[d], kvFault'[d] = kvFault[d]
    PROVE  IoInv(d)'
  BY DEF IoInv

\* A verb answers with typed data, and a read with what its status promises.
LEMMA OutcomesTyped ==
    ASSUME KvTypeOK, NEW c \in KvIo, NEW value \in KvValue, NEW o \in Outcomes(c, value)
    PROVE  /\ o.status \in KvStatus
           /\ o.data \in KvData
           /\ o.store \in KvValue \cup {KvAbsent}
           /\ kvIo[c].verb \in Reads => Promised(o.status, o.data.part)
           /\ kvIo[c].verb \notin Reads => o.data.part = "nothing"
<1> DEFINE Body(v) == {[status |-> IF p = "whole" THEN "SUCCESS" ELSE "BUFFER_TOO_SMALL",
                        data |-> [value |-> v, part |-> p], store |-> kvStore] :
                            p \in Parts(v.len, kvIo[c].len)}
           Plain(status, store) == [status |-> status, data |-> KvNothing, store |-> store]
           Good(x) == /\ x.status \in KvStatus
                      /\ x.data \in KvData
                      /\ x.store \in KvValue \cup {KvAbsent}
<1>1. KvNothing \in KvData /\ KvNothing.part = "nothing"
  BY DEF KvNothing, KvData, KvValue, Length
<1>2. ASSUME NEW s \in KvStatus, NEW st \in KvValue \cup {KvAbsent}
      PROVE  Good(Plain(s, st)) /\ Plain(s, st).data.part = "nothing" /\ Plain(s, st).status = s
  BY <1>1
<1>3. ASSUME NEW v \in KvValue, NEW x \in Body(v)
      PROVE  Good(x) /\ Promised(x.status, x.data.part)
  <2>1. PICK p \in Parts(v.len, kvIo[c].len) :
            x = [status |-> IF p = "whole" THEN "SUCCESS" ELSE "BUFFER_TOO_SMALL",
                 data |-> [value |-> v, part |-> p], store |-> kvStore]
    OBVIOUS
  <2>2. p \in {"whole", "prefix"}
    BY DEF Parts
  <2>3. x.data \in KvData /\ x.data.part = p
    BY <2>1, <2>2 DEF KvData
  <2> QED BY <2>1, <2>2, <2>3 DEF KvTypeOK, KvStatus, Promised
<1> HIDE DEF Body, Plain
<1>4. kvStore \in KvValue \cup {KvAbsent} /\ kvIo[c].verb \in Verb
  BY DEF KvTypeOK
<1>5. CASE kvDisk.read_only /\ kvIo[c].verb \in Mutating
  <2>1. o = Plain("READ_ONLY", kvStore)
    BY <1>5 DEF Outcomes, Plain
  <2> QED BY <2>1, <1>2, <1>4, <1>5 DEF KvStatus, Mutating, Reads
<1>6. CASE ~(kvDisk.read_only /\ kvIo[c].verb \in Mutating) /\ kvIo[c].verb = "list"
  <2>1. \/ \E n \in Length : o \in Body([by |-> "listing", len |-> n])
        \/ o = Plain("FAILED", kvStore)
    BY <1>6 DEF Outcomes, Plain, Body
  <2>2. ASSUME NEW n \in Length PROVE [by |-> "listing", len |-> n] \in KvValue
    BY DEF KvValue
  <2>3. ASSUME o = Plain("FAILED", kvStore)
        PROVE  Good(o) /\ Promised(o.status, o.data.part)
    BY <2>3, <1>2, <1>4 DEF KvStatus, Promised
  <2>4. Good(o) /\ Promised(o.status, o.data.part)
    BY <2>1, <2>2, <2>3, <1>3
  <2> QED BY <2>4, <1>6 DEF Reads
<1>7. CASE ~(kvDisk.read_only /\ kvIo[c].verb \in Mutating) /\ kvIo[c].verb = "store"
  <2>1. \/ o = Plain("SUCCESS", value)
        \/ \E s \in {kvStore, value} : o = Plain("FAILED", s)
    BY <1>7 DEF Outcomes, Plain
  <2> QED BY <2>1, <1>2, <1>4, <1>7, SMT DEF KvStatus, Reads
<1>8. CASE ~(kvDisk.read_only /\ kvIo[c].verb \in Mutating) /\ kvIo[c].verb = "delete"
  <2>1. \/ \E s \in {kvStore, KvAbsent} : o = Plain("FAILED", s)
        \/ o = Plain(IF kvStore = KvAbsent THEN "KEY_NOT_EXIST" ELSE "SUCCESS", KvAbsent)
    BY <1>8 DEF Outcomes, Plain
  <2> QED BY <2>1, <1>2, <1>4, <1>8, SMT DEF KvStatus, Reads
<1>9. CASE ~(kvDisk.read_only /\ kvIo[c].verb \in Mutating) /\ kvIo[c].verb \in {"retrieve", "exist"}
  <2>1. \/ o = Plain("FAILED", kvStore)
        \/ kvStore = KvAbsent /\ o = Plain("KEY_NOT_EXIST", kvStore)
        \/ kvStore # KvAbsent /\ kvIo[c].verb = "exist" /\ o = Plain("SUCCESS", kvStore)
        \/ kvStore # KvAbsent /\ kvIo[c].verb = "retrieve" /\ o \in Body(kvStore)
    BY <1>9 DEF Outcomes, Plain, Body
  <2> QED BY <2>1, <1>2, <1>3, <1>4, <1>9, SMT DEF KvStatus, Reads, Promised
<1> QED BY <1>4, <1>5, <1>6, <1>7, <1>8, <1>9 DEF Verb

--------------------------------------------------------------------------------
LEMMA KvInitial == KvInit => KvIInv
<1> SUFFICES ASSUME KvInit PROVE KvIInv
  OBVIOUS
<1>1. KvNothing \in KvData
  BY DEF KvNothing, KvData, KvValue, Length
<1>2. /\ KvIdle \in [state : {"idle", "flight", "done", "stranded"},
                     verb : Verb, len : Length, cqe : NvmeStatus]
      /\ KvNoReq \in [state : {"none", "sent", "pull", "push", "answered", "dead"},
                      status : KvStatus, data : KvData]
  BY <1>1 DEF KvIdle, KvNoReq, Verb, Length, NvmeStatus, KvStatus
<1>3. kvStore \in KvValue \cup {KvAbsent}
  BY DEF KvInit, KvValue
<1>4. KvTypeOK
  BY <1>1, <1>2, <1>3 DEF KvInit, KvTypeOK
<1>5. ASSUME NEW c \in KvIo PROVE IoInv(c)
  BY DEF KvInit, KvIdle, KvNoReq, IoInv
<1> QED BY <1>4, <1>5 DEF KvIInv

\* A step on one io.
LEMMA OneIo ==
    ASSUME KvIInv, NEW c \in KvIo, KvTypeOK', IoInv(c)',
           \A d \in KvIo \ {c} :
               /\ kvIo'[d] = kvIo[d] /\ kvHeld'[d] = kvHeld[d] /\ kvBuf'[d] = kvBuf[d]
               /\ kvReq'[d] = kvReq[d] /\ kvFault'[d] = kvFault[d]
    PROVE  KvIInv'
<1>1. ASSUME NEW d \in KvIo, d # c PROVE IoInv(d)'
  BY <1>1, Elsewhere DEF KvIInv
<1> QED BY <1>1 DEF KvIInv

LEMMA RejectsPreserves ==
    ASSUME KvIInv, NEW c \in KvIo, NEW verb \in Verb, NEW len \in Length, NEW keyed \in BOOLEAN,
           kvrados_handle_kv_io_Rejects(c, verb, len, keyed)
    PROVE  KvIInv'
<1> USE DEF kvrados_handle_kv_io_Rejects
<1>1. Rejection(verb, keyed) \in {"WRITE_TO_RO_RANGE", "INVALID_FIELD", "INTERNAL_DEVICE_ERROR"}
  BY DEF Rejection
<1>2. KvTypeOK'
  BY <1>1 DEF KvIInv, KvTypeOK, NvmeStatus
<1>3. IoInv(c)'
  BY <1>1, SMT DEF KvIInv, KvTypeOK, IoInv
<1> QED BY <1>2, <1>3, OneIo DEF KvIInv, KvTypeOK

\* The three layers together release exactly what was acquired before the failing step.
LEMMA UnwindIsWhole ==
    ASSUME NEW verb \in Verb, NEW len \in Length, NEW scattered \in BOOLEAN,
           NEW step \in Needs(verb, len, scattered) \cup {"forward"}
    PROVE  Before(Needs(verb, len, scattered), step) \
              (ReleasedByFront(step) \cup ReleasedByBridge(step) \cup ReleasedByBdev(step)) = {}
<1>1. Needs(verb, len, scattered) \subseteq Resource
  BY DEF Needs, StoreNeeds, RetrieveNeeds, ListNeeds, DeleteExistNeeds, Resource
<1>2. ASSUME NEW r \in Needs(verb, len, scattered), Rank(r) < Rank(step)
      PROVE  r \in ReleasedByFront(step) \cup ReleasedByBridge(step) \cup ReleasedByBdev(step)
  <2>1. r \in Resource /\ step \in Resource \cup {"forward"}
    BY <1>1
  <2> QED BY <1>2, <2>1, SMT DEF Rank, Resource, ReleasedByFront, ReleasedByBridge, ReleasedByBdev
<1> QED BY <1>2 DEF Before

LEMMA ForwardFailsPreserves ==
    ASSUME KvIInv, NEW c \in KvIo, NEW verb \in Verb, NEW len \in Length, NEW scattered \in BOOLEAN,
           NEW step, ForwardFails(c, verb, len, scattered, step)
    PROVE  KvIInv'
<1> USE DEF ForwardFails
<1>1. kvHeld' = [kvHeld EXCEPT ![c] = {}]
  BY UnwindIsWhole
<1>2. KvTypeOK'
  BY <1>1 DEF KvIInv, KvTypeOK, NvmeStatus
<1>3. IoInv(c)'
  BY <1>1, SMT DEF KvIInv, KvTypeOK, IoInv
<1> QED BY <1>1, <1>2, <1>3, OneIo DEF KvIInv, KvTypeOK

LEMMA ForwardPreserves ==
    ASSUME KvIInv, NEW c \in KvIo, NEW verb \in Verb, NEW len \in Length, NEW scattered \in BOOLEAN,
           nkvx_front_kv_forward(c, verb, len, scattered)
    PROVE  KvIInv'
<1> USE DEF nkvx_front_kv_forward
<1>1. Needs(verb, len, scattered) \subseteq Resource
  BY DEF Needs, StoreNeeds, RetrieveNeeds, ListNeeds, DeleteExistNeeds, Resource
<1>2. KvNothing \in KvData
  BY DEF KvNothing, KvData, KvValue, Length
<1>3. kvReq'[c] = [state |-> "sent", status |-> "SUCCESS", data |-> KvNothing]
  BY DEF KvNoReq, KvIInv, KvTypeOK
<1>4. kvReq' \in [KvIo -> [state : {"none", "sent", "pull", "push", "answered", "dead"},
                           status : KvStatus, data : KvData]]
  BY <1>2, <1>3, SMT DEF KvIInv, KvTypeOK, KvStatus
<1>5. KvTypeOK'
  BY <1>1, <1>4 DEF KvIInv, KvTypeOK, NvmeStatus
<1>6. IoInv(c)'
  BY <1>3, SMT DEF KvIInv, KvTypeOK, IoInv
<1> QED BY <1>5, <1>6, OneIo DEF KvIInv, KvTypeOK

LEMMA ForwardCbPreserves ==
    ASSUME KvIInv, NEW c \in KvIo, nkvx_kv_forward_cb(c)
    PROVE  KvIInv'
<1>1. /\ kvIo[c].state = "flight" /\ kvFront
      /\ UNCHANGED <<kvDisk, kvFront, kvReq, kvStore>>
  BY DEF nkvx_kv_forward_cb
<1>2. kvHeld[c] \subseteq {"kctx", "bounce", "fwd_ctx", "value_bulk", "sink_bulk", "handle", "call"}
  BY <1>1 DEF KvIInv, KvTypeOK, Resource
<1>3. kvHeld' = [kvHeld EXCEPT ![c] = {}]
  BY <1>2 DEF nkvx_kv_forward_cb, HeldAfterDone
<1>4. CASE /\ kvReq[c].state = "answered"
           /\ KvComplete(c, kvrados_kvdev_status_to_nvme(kvReq[c].status))
           /\ kvBuf' = [kvBuf EXCEPT ![c] = CopyInline(c)]
           /\ UNCHANGED kvFault
  <2> DEFINE cqe == kvrados_kvdev_status_to_nvme(kvReq[c].status)
  <2>1. /\ cqe \in NvmeStatus
        /\ cqe = "SUCCESS" => kvReq[c].status = "SUCCESS"
        /\ cqe = "CAPACITY_EXCEEDED" => kvReq[c].status = "BUFFER_TOO_SMALL"
    BY DEF kvrados_kvdev_status_to_nvme, NvmeStatus
  <2>2. CopyInline(c) \in KvData
    BY DEF CopyInline, KvIInv, KvTypeOK
  <2>3. kvIo'[c] = [state |-> "done", verb |-> kvIo[c].verb, len |-> kvIo[c].len, cqe |-> cqe]
    BY <1>4 DEF KvComplete, KvIInv, KvTypeOK
  <2>4. KvTypeOK'
    BY <1>1, <1>3, <1>4, <2>1, <2>2, <2>3, SMT DEF KvComplete, KvIInv, KvTypeOK
  <2>5. kvIo[c].verb \in Reads => Promised(kvReq[c].status, CopyInline(c).part)
    BY <1>1, <1>4 DEF KvIInv, IoInv, CopyInline, Reads
  <2>6. kvBuf'[c] = CopyInline(c) /\ kvReq'[c] = kvReq[c] /\ kvHeld'[c] = {}
    BY <1>1, <1>3, <1>4 DEF KvIInv, KvTypeOK
  <2>7. IoInv(c)'
    <3> HIDE DEF cqe
    <3> QED BY <1>4, <2>1, <2>3, <2>5, <2>6, SMT DEF IoInv, Promised
  <2> QED BY <1>1, <1>3, <1>4, <2>4, <2>7, OneIo DEF KvComplete, KvIInv, KvTypeOK
<1>5. CASE /\ KvComplete(c, kvrados_kvdev_status_to_nvme("FAILED"))
           /\ kvFault' = [kvFault EXCEPT ![c] = TRUE]
           /\ UNCHANGED kvBuf
  <2>1. kvrados_kvdev_status_to_nvme("FAILED") = "INTERNAL_DEVICE_ERROR"
    BY DEF kvrados_kvdev_status_to_nvme
  <2>2. kvIo'[c] = [state |-> "done", verb |-> kvIo[c].verb, len |-> kvIo[c].len,
                    cqe |-> "INTERNAL_DEVICE_ERROR"]
    BY <1>5, <2>1 DEF KvComplete, KvIInv, KvTypeOK
  <2>3. KvTypeOK'
    BY <1>1, <1>3, <1>5, <2>2, SMT DEF KvComplete, KvIInv, KvTypeOK, NvmeStatus
  <2>4. kvReq'[c] = kvReq[c] /\ kvHeld'[c] = {} /\ kvFault'[c] = TRUE
    BY <1>1, <1>3, <1>5 DEF KvIInv, KvTypeOK
  <2>5. IoInv(c)'
    BY <1>1, <2>2, <2>4, SMT DEF KvIInv, IoInv
  <2> QED BY <1>1, <1>3, <1>5, <2>3, <2>5, OneIo DEF KvComplete, KvIInv, KvTypeOK
<1> QED BY <1>4, <1>5 DEF nkvx_kv_forward_cb

LEMMA ReapPreserves ==
    ASSUME KvIInv, NEW c \in KvIo, Reap(c)
    PROVE  KvIInv'
<1> USE DEF Reap
<1>1. KvNothing \in KvData
  BY DEF KvNothing, KvData, KvValue, Length
<1>2. KvTypeOK'
  BY <1>1 DEF KvIInv, KvTypeOK, KvIdle, KvNoReq, Verb, Length, NvmeStatus, KvStatus
<1>3. IoInv(c)'
  BY SMT DEF KvIInv, KvTypeOK, IoInv, KvIdle, KvNoReq
<1> QED BY <1>2, <1>3, OneIo DEF KvIInv, KvTypeOK

LEMMA CreatePreserves == KvIInv /\ kvrados_create_channel_cb => KvIInv'
<1> SUFFICES ASSUME KvIInv, kvrados_create_channel_cb PROVE KvIInv'
  OBVIOUS
<1>1. ASSUME NEW d \in KvIo PROVE IoInv(d)'
  BY Elsewhere DEF KvIInv, kvrados_create_channel_cb
<1> QED BY <1>1 DEF KvIInv, KvTypeOK, kvrados_create_channel_cb

LEMMA DestroyPreserves == KvIInv /\ kvrados_destroy_channel => KvIInv'
<1> SUFFICES ASSUME KvIInv, kvrados_destroy_channel PROVE KvIInv'
  OBVIOUS
<1>1. KvTypeOK'
  <2>1. ASSUME NEW d \in KvIo
        PROVE  [kvIo[d] EXCEPT !.state = "stranded"]
                  \in [state : {"idle", "flight", "done", "stranded"},
                       verb : Verb, len : Length, cqe : NvmeStatus]
    BY SMT DEF KvIInv, KvTypeOK
  <2>2. kvIo' \in [KvIo -> [state : {"idle", "flight", "done", "stranded"},
                            verb : Verb, len : Length, cqe : NvmeStatus]]
    BY <2>1 DEF KvIInv, KvTypeOK, kvrados_destroy_channel
  <2> QED BY <2>2 DEF KvIInv, KvTypeOK, kvrados_destroy_channel
<1>2. ASSUME NEW d \in KvIo PROVE IoInv(d)'
  <2>1. CASE kvIo[d].state = "flight"
    <3>1. kvIo'[d] = [state |-> "stranded", verb |-> kvIo[d].verb, len |-> kvIo[d].len,
                      cqe |-> kvIo[d].cqe]
      BY <2>1 DEF KvIInv, KvTypeOK, kvrados_destroy_channel
    <3> QED BY <2>1, <3>1 DEF KvIInv, IoInv, kvrados_destroy_channel
  <2>2. CASE kvIo[d].state # "flight"
    BY <2>2, Elsewhere DEF KvIInv, kvrados_destroy_channel
  <2> QED BY <2>1, <2>2
<1> QED BY <1>1, <1>2 DEF KvIInv

\* A request that fails promises nothing.
LEMMA FailPreserves ==
    ASSUME KvIInv, NEW c \in KvIo, kvReq[c].state \in {"sent", "pull", "push"},
           NEW status \in {"FAILED", "NOMEM", "NOT_SUPPORTED"}, nkvx_kv_req_fail(c, status),
           UNCHANGED <<kvDisk, kvFront, kvIo, kvHeld>>, kvStore' \in KvValue \cup {KvAbsent}
    PROVE  KvIInv'
<1>1. KvNothing \in KvData
  BY DEF KvNothing, KvData, KvValue, Length
<1>2. PICK sent \in BOOLEAN :
          /\ kvReq' = [kvReq EXCEPT ![c] = [state |-> IF sent THEN "answered" ELSE "dead",
                                           status |-> status, data |-> KvNothing]]
          /\ kvFault' = [kvFault EXCEPT ![c] = @ \/ ~sent]
          /\ UNCHANGED kvBuf
  BY DEF nkvx_kv_req_fail, nkvx_kv_req_finish
<1>3. KvTypeOK'
  BY <1>1, <1>2 DEF KvIInv, KvTypeOK, KvStatus
<1>4. IoInv(c)'
  BY <1>2, SMT DEF KvIInv, KvTypeOK, IoInv, Promised
<1> QED BY <1>2, <1>3, <1>4, OneIo DEF KvIInv, KvTypeOK

\* Running a verb: a big result is pushed first, any other answered with its data.
LEMMA DeliverPreserves ==
    ASSUME KvIInv, NEW c \in KvIo, kvReq[c].state \in {"sent", "pull"},
           NEW value \in KvValue, nkvx_kv_run_and_deliver(c, value),
           UNCHANGED <<kvDisk, kvFront, kvIo, kvHeld>>
    PROVE  KvIInv'
<1>1. PICK o \in Outcomes(c, value) :
          /\ kvStore' = o.store
          /\ IF ~BigResult(c, o.data)
             THEN nkvx_kv_req_finish(c, o.status, o.data) /\ UNCHANGED kvBuf
             ELSE \/ /\ "sink_bulk" \in Needs(kvIo[c].verb, kvIo[c].len, FALSE)
                     /\ kvReq' = [kvReq EXCEPT ![c] = [state |-> "push", status |-> o.status,
                                                      data |-> o.data]]
                     /\ kvBuf' = [kvBuf EXCEPT ![c] = [o.data EXCEPT !.part = "torn"]]
                     /\ UNCHANGED kvFault
                  \/ nkvx_kv_req_fail(c, IF "sink_bulk" \in Needs(kvIo[c].verb, kvIo[c].len, FALSE)
                                         THEN "FAILED" ELSE "NOT_SUPPORTED")
  BY DEF nkvx_kv_run_and_deliver
<1>2. /\ o.status \in KvStatus
      /\ o.data \in KvData
      /\ o.store \in KvValue \cup {KvAbsent}
      /\ kvIo[c].verb \in Reads => Promised(o.status, o.data.part)
      /\ kvIo[c].verb \notin Reads => o.data.part = "nothing"
  BY OutcomesTyped DEF KvIInv
<1>3. CASE nkvx_kv_req_finish(c, o.status, o.data) /\ UNCHANGED kvBuf
  <2>1. PICK sent \in BOOLEAN :
            /\ kvReq' = [kvReq EXCEPT ![c] = [state |-> IF sent THEN "answered" ELSE "dead",
                                             status |-> o.status, data |-> o.data]]
            /\ kvFault' = [kvFault EXCEPT ![c] = @ \/ ~sent]
    BY <1>3 DEF nkvx_kv_req_finish
  <2>2. KvTypeOK'
    BY <1>1, <1>2, <1>3, <2>1 DEF KvIInv, KvTypeOK
  <2>3. IoInv(c)'
    BY <1>2, <1>3, <2>1, SMT DEF KvIInv, KvTypeOK, IoInv, Promised
  <2> QED BY <1>3, <2>1, <2>2, <2>3, OneIo DEF KvIInv, KvTypeOK
<1>4. CASE /\ BigResult(c, o.data)
           /\ kvReq' = [kvReq EXCEPT ![c] = [state |-> "push", status |-> o.status,
                                            data |-> o.data]]
           /\ kvBuf' = [kvBuf EXCEPT ![c] = [o.data EXCEPT !.part = "torn"]]
           /\ UNCHANGED kvFault
  <2>1. kvIo[c].len = "large" /\ kvIo[c].verb \in Reads
    BY <1>2, <1>4 DEF BigResult
  <2>2. [o.data EXCEPT !.part = "torn"] \in KvData
    BY <1>2 DEF KvData
  <2>3. KvTypeOK'
    BY <1>1, <1>2, <1>4, <2>2 DEF KvIInv, KvTypeOK
  <2>4. IoInv(c)'
    BY <1>2, <1>4, <2>1, SMT DEF KvIInv, KvTypeOK, IoInv
  <2> QED BY <1>4, <2>3, <2>4, OneIo DEF KvIInv, KvTypeOK
<1>5. CASE /\ BigResult(c, o.data)
           /\ nkvx_kv_req_fail(c, IF "sink_bulk" \in Needs(kvIo[c].verb, kvIo[c].len, FALSE)
                                  THEN "FAILED" ELSE "NOT_SUPPORTED")
  <2> DEFINE st == IF "sink_bulk" \in Needs(kvIo[c].verb, kvIo[c].len, FALSE)
                   THEN "FAILED" ELSE "NOT_SUPPORTED"
  <2>1. st \in {"FAILED", "NOMEM", "NOT_SUPPORTED"}
    OBVIOUS
  <2> HIDE DEF st
  <2>2. nkvx_kv_req_fail(c, st)
    BY <1>5 DEF st
  <2> QED BY <1>1, <1>2, <2>1, <2>2, FailPreserves
<1> QED BY <1>1, <1>3, <1>4, <1>5

LEMMA HandlerPreserves ==
    ASSUME KvIInv, NEW c \in KvIo, nkvx_kv_handler(c)
    PROVE  KvIInv'
<1>1. kvReq[c].state = "sent" /\ UNCHANGED <<kvDisk, kvFront, kvIo, kvHeld>>
  BY DEF nkvx_kv_handler
<1>2. kvStore \in KvValue \cup {KvAbsent}
  BY DEF KvIInv, KvTypeOK
<1>3. CASE /\ kvReq' = [kvReq EXCEPT ![c] = [kvReq[c] EXCEPT !.state = "dead"]]
           /\ kvFault' = [kvFault EXCEPT ![c] = TRUE]
           /\ UNCHANGED <<kvBuf, kvStore>>
  <2>1. KvTypeOK'
    BY <1>1, <1>3 DEF KvIInv, KvTypeOK
  <2>2. IoInv(c)'
    BY <1>1, <1>3, SMT DEF KvIInv, KvTypeOK, IoInv
  <2> QED BY <1>1, <1>3, <2>1, <2>2, OneIo DEF KvIInv, KvTypeOK
<1>4. CASE nkvx_kv_req_fail(c, "NOT_SUPPORTED") /\ UNCHANGED kvStore
  BY <1>1, <1>2, <1>4, FailPreserves
<1>5. CASE /\ kvIo[c].verb = "store" /\ kvIo[c].len = "large"
           /\ UNCHANGED kvStore /\ nkvx_kv_submit_value_pull(c)
  <2>1. CASE nkvx_kv_req_fail(c, "NOMEM")
    BY <1>1, <1>2, <1>5, <2>1, FailPreserves
  <2>2. CASE nkvx_kv_req_fail(c, "FAILED")
    BY <1>1, <1>2, <1>5, <2>2, FailPreserves
  <2>3. CASE /\ kvReq' = [kvReq EXCEPT ![c] = [kvReq[c] EXCEPT !.state = "pull"]]
             /\ UNCHANGED <<kvBuf, kvFault>>
    <3>1. KvTypeOK'
      BY <1>1, <1>5, <2>3 DEF KvIInv, KvTypeOK
    <3>2. IoInv(c)'
      BY <1>1, <1>5, <2>3, SMT DEF KvIInv, KvTypeOK, IoInv
    <3> QED BY <1>1, <2>3, <3>1, <3>2, OneIo DEF KvIInv, KvTypeOK
  <2> QED BY <1>5, <2>1, <2>2, <2>3 DEF nkvx_kv_submit_value_pull
<1>6. CASE nkvx_kv_run_and_deliver(c, [by |-> c, len |-> kvIo[c].len])
  <2>1. [by |-> c, len |-> kvIo[c].len] \in KvValue
    BY DEF KvIInv, KvTypeOK, KvValue
  <2> QED BY <1>1, <1>6, <2>1, DeliverPreserves
<1> QED BY <1>3, <1>4, <1>5, <1>6 DEF nkvx_kv_handler

LEMMA PulledPreserves ==
    ASSUME KvIInv, NEW c \in KvIo, nkvx_kv_value_pulled_cb(c)
    PROVE  KvIInv'
<1>1. kvReq[c].state = "pull" /\ UNCHANGED <<kvDisk, kvFront, kvIo, kvHeld>>
  BY DEF nkvx_kv_value_pulled_cb
<1>2. CASE nkvx_kv_req_fail(c, "FAILED") /\ UNCHANGED kvStore
  BY <1>1, <1>2, FailPreserves DEF KvIInv, KvTypeOK
<1>3. ASSUME NEW by \in {c, "garbage"},
             nkvx_kv_run_and_deliver(c, [by |-> by, len |-> "large"])
      PROVE  KvIInv'
  <2>1. [by |-> by, len |-> "large"] \in KvValue
    BY DEF KvValue, Length
  <2> QED BY <1>1, <1>3, <2>1, DeliverPreserves
<1> QED BY <1>2, <1>3 DEF nkvx_kv_value_pulled_cb

LEMMA PushedPreserves ==
    ASSUME KvIInv, NEW c \in KvIo, nkvx_kv_result_pushed_cb(c)
    PROVE  KvIInv'
<1>1. kvReq[c].state = "push" /\ UNCHANGED <<kvDisk, kvFront, kvIo, kvHeld, kvStore>>
  BY DEF nkvx_kv_result_pushed_cb
<1>2. CASE nkvx_kv_req_fail(c, "FAILED")
  BY <1>1, <1>2, FailPreserves DEF KvIInv, KvTypeOK
<1>3. CASE /\ nkvx_kv_req_finish(c, kvReq[c].status, KvNothing)
           /\ kvBuf' = [kvBuf EXCEPT ![c] = kvReq[c].data]
  <2>1. PICK sent \in BOOLEAN :
            /\ kvReq' = [kvReq EXCEPT ![c] = [state |-> IF sent THEN "answered" ELSE "dead",
                                             status |-> kvReq[c].status, data |-> KvNothing]]
            /\ kvFault' = [kvFault EXCEPT ![c] = @ \/ ~sent]
    BY <1>3 DEF nkvx_kv_req_finish
  <2>2. KvNothing \in KvData /\ KvNothing.part = "nothing"
    BY DEF KvNothing, KvData, KvValue, Length
  <2>3. KvTypeOK'
    BY <1>1, <1>3, <2>1, <2>2 DEF KvIInv, KvTypeOK
  <2>4. IoInv(c)'
    BY <1>1, <1>3, <2>1, <2>2, SMT DEF KvIInv, KvTypeOK, IoInv
  <2> QED BY <1>1, <1>3, <2>1, <2>3, <2>4, OneIo DEF KvIInv, KvTypeOK
<1> QED BY <1>2, <1>3 DEF nkvx_kv_result_pushed_cb

LEMMA KvStep == KvIInv /\ [KvNext]_kvVars => KvIInv'
<1> SUFFICES ASSUME KvIInv, [KvNext]_kvVars PROVE KvIInv'
  OBVIOUS
<1>1. CASE KvTenant
  BY <1>1, CreatePreserves, DestroyPreserves, ReapPreserves, RejectsPreserves, ForwardPreserves,
     ForwardFailsPreserves DEF KvTenant
<1>2. ASSUME NEW c \in KvIo, KvExecutor(c) \/ nkvx_kv_forward_cb(c) PROVE KvIInv'
  BY <1>2, HandlerPreserves, PulledPreserves, PushedPreserves, ForwardCbPreserves DEF KvExecutor
<1>3. CASE UNCHANGED kvVars
  <2>1. ASSUME NEW d \in KvIo PROVE IoInv(d)'
    BY <1>3, Elsewhere DEF KvIInv, kvVars
  <2> QED BY <1>3, <2>1 DEF KvIInv, KvTypeOK, kvVars
<1> QED BY <1>1, <1>2, <1>3 DEF KvNext

\* The invariant has what the properties say.
LEMMA KvInvSuffices ==
    ASSUME KvIInv
    PROVE  KvTransferCovered /\ KvSuccessIsWhole /\ KvNothingHeldAfterDone
<1>1. ASSUME NEW c \in KvIo, ~kvFault[c], kvReq[c].state = "pull"
      PROVE  {"bounce", "value_bulk"} \subseteq kvHeld[c]
  <2>1. kvIo[c].state \in {"flight", "stranded"} /\ kvIo[c].verb = "store" /\ kvIo[c].len = "large"
    BY <1>1 DEF KvIInv, KvTypeOK, IoInv
  <2>2. PICK scattered \in BOOLEAN : kvHeld[c] = Needs("store", "large", scattered)
    BY <2>1 DEF KvIInv, IoInv
  <2> QED BY <2>2 DEF Needs, StoreNeeds
<1>2. ASSUME NEW c \in KvIo, ~kvFault[c], kvReq[c].state = "push"
      PROVE  "sink_bulk" \in kvHeld[c] /\ kvIo[c].state # "done"
  <2>1. /\ kvIo[c].state \in {"flight", "stranded"}
        /\ kvIo[c].verb \in Reads /\ kvIo[c].len = "large"
    BY <1>2 DEF KvIInv, KvTypeOK, IoInv
  <2>2. PICK scattered \in BOOLEAN : kvHeld[c] = Needs(kvIo[c].verb, "large", scattered)
    BY <2>1 DEF KvIInv, IoInv
  <2> QED BY <2>1, <2>2 DEF Needs, RetrieveNeeds, ListNeeds, Reads
<1>3. KvTransferCovered
  BY <1>1, <1>2 DEF KvTransferCovered
<1>4. KvSuccessIsWhole
  BY DEF KvSuccessIsWhole, KvIInv, IoInv, Reads
<1>5. KvNothingHeldAfterDone
  BY DEF KvNothingHeldAfterDone, KvIInv, IoInv
<1> QED BY <1>3, <1>4, <1>5

--------------------------------------------------------------------------------
\* For any number of ios: a PULL in flight has its bounce and its registration, and a PUSH
\* its sink, unless the transport had reported the call as failed (nkvx_kv_value_pulled_cb).
THEOREM TransfersAreCovered == KvSpec => []KvTransferCovered
  BY KvInitial, KvStep, KvInvSuffices, PTL DEF KvSpec

\* For any number of ios: a Retrieve or a List that completes with success left all of a
\* value in the tenant's buffer (nkvx_kv_run_and_deliver answers after its PUSH).
THEOREM SuccessfulReadIsWhole == KvSpec => []KvSuccessIsWhole
  BY KvInitial, KvStep, KvInvSuffices, PTL DEF KvSpec

\* For any number of ios and any failing step of the three layers, a completed io has left
\* nothing allocated or registered (the error paths of nkvx_front_kv_forward).
THEOREM CompletedIoHoldsNothing == KvSpec => []KvNothingHeldAfterDone
  BY KvInitial, KvStep, KvInvSuffices, PTL DEF KvSpec

\* Both together: the memory of an io is held as long as a transfer may use it, and given
\* back by the time it completes.
THEOREM MemoryIsExact == KvSpec => []KvMemoryExact
  BY TransfersAreCovered, CompletedIoHoldsNothing, PTL DEF KvMemoryExact

--------------------------------------------------------------------------------
(*********************************************************************************)
(* The disks, for any names, parameters and number of channels.                  *)
(*********************************************************************************)
\* The disks and the saved configuration are of the parameters a create was given, and a
\* channel is one of a disk that exists.
BdTypes ==
    /\ bdDisk \in [BdName -> BdDisks \cup {BdNone}]
    /\ bdSaved \in [BdName -> BdParams \cup {BdNone}]
    /\ bdChan \in [BdName -> Nat]
    /\ bdCount \in Nat

\* The inductive invariant.
BdIInv == BdTypes /\ BdNothingDangles /\ BdExecGate

INSTANCE WellFoundedInduction

\* The least of a set of numbers is one of them.
LEMMA MinIsMember ==
    ASSUME NEW S, S \subseteq Nat, S # {}
    PROVE  Min(S) \in S
<1>1. PICK m \in S : \A y \in S : ~ (<<y, m>> \in OpToRel(<, Nat))
  BY WFMin, NatLessThanWellFounded
<1>2. \A y \in S : ~ (y < m)
  BY <1>1 DEF OpToRel
<1>3. \A y \in S : m =< y
  BY <1>2, SMT
<1> QED BY <1>3 DEF Min

\* What is built of a create's parameters, and what is saved of a disk.
LEMMA DiskTypes ==
    /\ \A opts \in BdParams : create_kvrados_disk_Disk(opts) \in BdDisks
    /\ \A disk \in BdDisks : kvrados_write_json_config(disk) \in BdParams
<1>1. ASSUME NEW opts \in BdParams PROVE create_kvrados_disk_Disk(opts) \in BdDisks
  <2>1. /\ Or(opts.max, BdDefault.max) \in Nat \ {0}
        /\ Or(opts.gran, BdDefault.gran) \in Nat \ {0}
    BY BdAssumption, SMT DEF BdParams, Or
  <2>2. opts.ro \in BOOLEAN /\ opts.endpoint \in BOOLEAN /\ opts.list \in BdList
    BY DEF BdParams
  <2> QED BY <2>1, <2>2 DEF create_kvrados_disk_Disk, BdDisks
<1>2. ASSUME NEW disk \in BdDisks PROVE kvrados_write_json_config(disk) \in BdParams
  <2>1. disk.max \in Nat /\ disk.gran \in Nat
    BY DEF BdDisks
  <2>2. disk.ro \in BOOLEAN /\ disk.endpoint \in BOOLEAN /\ disk.list \in BdList
    BY DEF BdDisks
  <2> QED BY <2>1, <2>2 DEF kvrados_write_json_config, BdParams
<1> QED BY <1>1, <1>2

\* The unwinding of a failed create frees whatever it had allocated.
LEMMA AllUnwound ==
    ASSUME NEW opts
    PROVE  /\ Range(Allocations(opts)) \ Unwound(Range(Allocations(opts))) = {}
           /\ \A k \in DOMAIN Allocations(opts) :
                 LET got == {Allocations(opts)[i] : i \in 1..(k - 1)}
                               \cup (IF Allocations(opts)[k] = "strings" THEN {"strings"} ELSE {})
                 IN  got \ Unwound(got) = {}
<1> DEFINE A == {"disk", "name", "endpoint", "list", "strings"}
           Al == Allocations(opts)
<1>1. Al \in Seq(A)
  <2> DEFINE ep == IF opts.endpoint THEN <<"endpoint">> ELSE <<>>
             al == IF opts.list = <<>> THEN <<>> ELSE <<"list", "strings">>
  <2>1. /\ <<"disk", "name">> \in Seq(A) /\ <<"endpoint">> \in Seq(A)
        /\ <<"list", "strings">> \in Seq(A) /\ <<>> \in Seq(A)
    BY SMT
  <2>2. ep \in Seq(A) /\ al \in Seq(A)
    <3> HIDE DEF A
    <3> QED BY <2>1
  <2> HIDE DEF A, ep, al
  <2>3. (<<"disk", "name">> \o ep) \o al \in Seq(A)
    BY <2>1, <2>2, SMT
  <2> QED BY <2>3 DEF Allocations, ep, al
<1>2. \A got \in SUBSET A : got \ Unwound(got) = {}
  BY DEF Unwound, kvrados_free_exec_allowlist
<1> HIDE DEF Al, A
<1>3. Range(Al) \in SUBSET A
  BY <1>1, SMT DEF Range
<1>4. ASSUME NEW k \in DOMAIN Al
      PROVE  {Al[i] : i \in 1..(k - 1)} \cup (IF Al[k] = "strings" THEN {"strings"} ELSE {})
                \in SUBSET A
  <2>1. k \in 1..Len(Al) /\ Len(Al) \in Nat
    BY <1>1, SMT
  <2>2. \A i \in 1..(k - 1) : Al[i] \in A
    BY <1>1, <2>1, SMT
  <2>3. "strings" \in A
    BY DEF A
  <2> QED BY <2>2, <2>3
<1> QED BY <1>2, <1>3, <1>4 DEF Al

\* A KV Exec records only what its gates allow.
LEMMA ExecGated ==
    ASSUME BdTypes, NEW n \in BdName, NEW op \in BdOp, NEW keyed \in BOOLEAN,
           NEW fails \in BOOLEAN, kvrados_handle_exec(n, op, keyed, fails)
    PROVE  BdExecGate'
<1> DEFINE list == bdDisk[n].list
           at == {i \in DOMAIN list : list[i].op = op}
           e == kvrados_exec_op_allowed(list, op)
           gate == IF keyed THEN kvrados_handle_exec_Outcome(bdDisk[n], e) ELSE "unkeyed"
           outcome == IF fails /\ gate \in {"native", "forwarded"} THEN "error" ELSE gate
           b == kvrados_resolve_binding(e)
<1>1. list \in BdList
  BY BdAssumption DEF BdTypes, BdDisks, kvrados_handle_exec
<1>2. bdExec' = IF outcome \in {"unkeyed", "denied"}
                THEN [outcome |-> outcome, name |-> n, op |-> op]
                ELSE [outcome |-> outcome, name |-> n, op |-> op, entry |-> e, bound |-> b]
  BY DEF kvrados_handle_exec
<1>3. e # BdNone => e.op = op /\ e.caps \in Nat
  <2>1. DOMAIN list \subseteq Nat /\ \A i \in DOMAIN list : list[i].caps \in Nat
    BY <1>1, BdAssumption
  <2> HIDE DEF list
  <2>2. at # {} => Min(at) \in at
    BY <2>1, MinIsMember
  <2> QED BY <2>1, <2>2 DEF kvrados_exec_op_allowed
<1> HIDE DEF list, e
<1>4. ASSUME bdExec'.outcome \in {"native", "forwarded", "invalid"}
      PROVE  /\ e # BdNone /\ bdExec'.entry = e /\ bdExec'.op = op /\ bdExec'.bound = b
             /\ bdExec'.outcome = kvrados_handle_exec_Outcome(bdDisk[n], e)
  <2> HIDE DEF b
  <2>1. outcome \notin {"unkeyed", "denied"} /\ outcome = bdExec'.outcome
    BY <1>2, <1>4
  <2>2. outcome = gate /\ keyed /\ gate = kvrados_handle_exec_Outcome(bdDisk[n], e)
    BY <1>4, <2>1
  <2>3. e # BdNone
    BY <2>1, <2>2 DEF kvrados_handle_exec_Outcome
  <2> HIDE DEF outcome
  <2> QED BY <1>2, <2>1, <2>2, <2>3
<1>5. BdExecAsConfigured'
  <2> SUFFICES ASSUME bdExec'.outcome \in {"native", "forwarded"}
               PROVE  /\ e.op = op /\ e.caps <= BdTierMax
                      /\ e.binding # BdNone => ~HasStructured(e) /\ WellFormed(e.binding)
                      /\ e.sha # BdNone => e.sha = "hex" /\ b.sha = e.sha
    <3> HIDE DEF b
    <3> QED BY <1>4 DEF BdExecAsConfigured
  <2>1. b.ok /\ ~ (e.caps > BdTierMax)
    BY <1>4 DEF kvrados_handle_exec_Outcome
  <2>2. e.caps <= BdTierMax
    BY <1>3, <1>4, <2>1, BdAssumption, SMT
  <2>3. e.binding # BdNone => ~HasStructured(e) /\ WellFormed(e.binding)
    BY <2>1 DEF kvrados_resolve_binding
  <2>4. e.sha # BdNone => e.binding = BdNone
    BY <2>3 DEF HasStructured
  <2>5. e.sha # BdNone => e.sha = "hex" /\ b.sha = e.sha
    BY <2>1, <2>4 DEF kvrados_resolve_binding
  <2> QED BY <1>3, <1>4, <2>2, <2>3, <2>5
<1>6. BdPolicyAgrees'
  <2> SUFFICES ASSUME bdExec'.outcome = "invalid"
               PROVE  ~validate(e) \/ e.caps > BdTierMax
    <3> HIDE DEF b
    <3> QED BY <1>4 DEF BdPolicyAgrees
  <2>1. ~ b.ok \/ e.caps > BdTierMax
    BY <1>4 DEF kvrados_handle_exec_Outcome
  <2>2. validate(e) => b.ok
    BY DEF validate, kvrados_resolve_binding
  <2> QED BY <2>1, <2>2
<1> QED BY <1>5, <1>6 DEF BdExecGate

\* The inductive invariant is kept by every step.
LEMMA BdStepKept == BdIInv /\ [BdNext]_bdVars => BdIInv'
<1> SUFFICES ASSUME BdIInv, [BdNext]_bdVars PROVE BdIInv'
  OBVIOUS
<1> USE BdAssumption
<1>a. BdTypes /\ BdNothingDangles /\ BdExecGate
  BY DEF BdIInv
<1>b. bdExec' = NoExec => BdExecGate'
  BY SMT DEF BdExecGate, BdExecAsConfigured, BdPolicyAgrees, NoExec
<1>1. ASSUME NEW name \in BdName \cup {BdNone}, NEW opts \in BdOpts,
             rpc_bdev_kvrados_create(name, opts)
      PROVE  BdIInv'
  <2>1. /\ UNCHANGED <<bdChan, bdSaved>> /\ bdExec' = NoExec /\ bdCount' \in Nat
        /\ Chosen(name) \in BdName
    <3>1. UNCHANGED <<bdChan, bdSaved>> /\ bdExec' = NoExec /\ bdCount' = CountAfter(name)
             /\ (name = BdNone => bdCount < Len(BdAuto))
      BY <1>1 DEF rpc_bdev_kvrados_create
    <3>2. name = BdNone => bdCount + 1 \in DOMAIN BdAuto
      BY <1>a, <3>1, SMT DEF BdTypes
    <3> QED BY <1>a, <3>1, <3>2, SMT DEF BdTypes, Chosen, CountAfter
  <2>2. bdHeld' = {}
    BY <1>a, <1>1, AllUnwound DEF rpc_bdev_kvrados_create, BdNothingDangles
  <2>3. CASE UNCHANGED bdDisk
    BY <1>a, <1>b, <2>1, <2>2, <2>3 DEF BdIInv, BdTypes, BdNothingDangles
  <2>4. CASE bdDisk[Chosen(name)] = BdNone
             /\ bdDisk' = [bdDisk EXCEPT ![Chosen(name)] = create_kvrados_disk_Disk(opts)]
    <3>1. create_kvrados_disk_Disk(opts) \in BdDisks
      BY DiskTypes
    <3> QED BY <1>a, <1>b, <2>1, <2>2, <2>4, <3>1 DEF BdIInv, BdTypes, BdNothingDangles
  <2> QED BY <1>1, <2>3, <2>4 DEF rpc_bdev_kvrados_create
<1>2. CASE SaveConfig
  <2>1. bdSaved' \in [BdName -> BdParams \cup {BdNone}]
    BY <1>a, <1>2, DiskTypes DEF SaveConfig, BdTypes, Live
  <2> QED BY <1>a, <1>b, <1>2, <2>1 DEF SaveConfig, BdIInv, BdTypes, BdNothingDangles
<1>3. CASE ReplayConfig
  <2>1. bdDisk' \in [BdName -> BdDisks \cup {BdNone}]
    BY <1>a, <1>3, DiskTypes DEF ReplayConfig, BdTypes
  <2> QED BY <1>a, <1>b, <1>3, <2>1, SMT DEF ReplayConfig, BdIInv, BdTypes, BdNothingDangles
<1>4. ASSUME NEW n \in BdName, kvrados_get_io_channel(n)
      PROVE  BdIInv'
  BY <1>a, <1>b, <1>4, SMT DEF kvrados_get_io_channel, Live, BdIInv, BdTypes, BdNothingDangles
<1>5. ASSUME NEW n \in BdName, PutChannel(n)
      PROVE  BdIInv'
  BY <1>a, <1>b, <1>5, SMT DEF PutChannel, BdIInv, BdTypes, BdNothingDangles
<1>6. ASSUME NEW n \in BdName, delete_kvrados_disk(n)
      PROVE  BdIInv'
  <2>1. [bdDisk[n] EXCEPT !.going = TRUE] \in BdDisks
    <3>1. bdDisk[n] \in BdDisks
      BY <1>a, <1>6 DEF delete_kvrados_disk, Live, BdTypes
    <3> QED BY <3>1 DEF BdDisks
  <2> QED BY <1>a, <1>b, <1>6, <2>1 DEF delete_kvrados_disk, BdIInv, BdTypes, BdNothingDangles
<1>7. ASSUME NEW n \in BdName, kvrados_disk_unregister_done(n)
      PROVE  BdIInv'
  BY <1>a, <1>b, <1>7, SMT DEF kvrados_disk_unregister_done, BdIInv, BdTypes, BdNothingDangles
<1>8. ASSUME NEW n \in BdName, NEW op \in BdOp, NEW keyed \in BOOLEAN, NEW fails \in BOOLEAN,
             kvrados_handle_exec(n, op, keyed, fails)
      PROVE  BdIInv'
  <2>1. UNCHANGED <<bdDisk, bdCount, bdChan, bdHeld, bdSaved>>
    BY <1>8 DEF kvrados_handle_exec
  <2> QED BY <1>a, <1>8, <2>1, ExecGated, SMT DEF BdIInv, BdTypes, BdNothingDangles
<1>9. CASE UNCHANGED bdVars
  BY <1>a, <1>9 DEF bdVars, BdIInv, BdTypes, BdNothingDangles, BdExecGate, BdExecAsConfigured,
     BdPolicyAgrees
<1> QED BY <1>1, <1>2, <1>3, <1>4, <1>5, <1>6, <1>7, <1>8, <1>9 DEF BdNext

\* The inductive invariant is an invariant of the bdev.
THEOREM DiskInductive == BdSpec => []BdIInv
<1>1. BdInit => BdIInv
  BY SMT DEF BdInit, BdIInv, BdTypes, BdNothingDangles, BdExecGate, BdExecAsConfigured,
     BdPolicyAgrees, NoExec
<1> QED BY <1>1, BdStepKept, PTL DEF BdSpec

\* Whatever the allowlists, tiers and names: a KV Exec runs only what the disk's allowlist
\* binds to its op_id, and what rkv's own check accepts is refused only for its tier.
THEOREM DiskExecGate == BdSpec => []BdExecGate
<1>1. BdIInv => BdExecGate
  BY DEF BdIInv
<1> QED BY <1>1, DiskInductive, PTL

\* A disk's memory outlives its channels, and a create that fails at any allocation, or at
\* the registration, leaves none allocated.
THEOREM DiskNothingDangles == BdSpec => []BdNothingDangles
<1>1. BdIInv => BdNothingDangles
  BY DEF BdIInv
<1> QED BY <1>1, DiskInductive, PTL

\* A restart replays a saved disk with its settings, whatever they are, unless its granularity
\* is above its value size: then the disk is gone.
THEOREM DiskSurvivesRestart == BdSpec => BdRestartKeepsDisks
<1> DEFINE Kept(n) ==
      IF bdDisk[n].gran > bdDisk[n].max THEN bdDisk'[n] = BdNone
      ELSE /\ bdDisk'[n].ro = bdDisk[n].ro /\ bdDisk'[n].list = bdDisk[n].list
           /\ kvrados_handle_admin_identify(bdDisk'[n])
                = kvrados_handle_admin_identify(bdDisk[n])
<1>1. BdIInv /\ [BdNext]_bdVars =>
        [bdBoot' # bdBoot =>
            \A n \in BdName : Live(n) /\ bdSaved[n] = kvrados_write_json_config(bdDisk[n]) =>
                Kept(n)]_bdVars
  <2> SUFFICES ASSUME BdIInv, [BdNext]_bdVars, bdBoot' # bdBoot, NEW n \in BdName, Live(n),
                      bdSaved[n] = kvrados_write_json_config(bdDisk[n])
               PROVE  Kept(n)
    <3> HIDE DEF Kept
    <3> QED OBVIOUS
  <2>1. ReplayConfig
    BY SMT DEF BdNext, bdVars, rpc_bdev_kvrados_create, SaveConfig, kvrados_get_io_channel,
       PutChannel, delete_kvrados_disk, kvrados_disk_unregister_done, kvrados_handle_exec
  <2>2. bdDisk[n] \in BdDisks
    BY DEF BdIInv, BdTypes, Live
  <2>3. bdSaved[n] \in BdParams
    BY <2>2, DiskTypes
  <2>4. bdSaved[n] # BdNone
    BY <2>3, BdAssumption
  <2>5. /\ bdSaved[n].max = bdDisk[n].max /\ bdSaved[n].gran = bdDisk[n].gran
        /\ bdSaved[n].ro = bdDisk[n].ro /\ bdSaved[n].list = bdDisk[n].list
    BY SMT DEF kvrados_write_json_config
  <2>6. /\ bdDisk[n].max \in Nat \ {0} /\ bdDisk[n].gran \in Nat \ {0}
    BY <2>2 DEF BdDisks
  <2>7. bdDisk'[n] = IF create_kvrados_disk_Accepts(bdSaved[n])
                     THEN create_kvrados_disk_Disk(bdSaved[n]) ELSE BdNone
    BY <2>1, <2>4 DEF ReplayConfig
  <2>8. create_kvrados_disk_Accepts(bdSaved[n]) <=> ~ (bdDisk[n].gran > bdDisk[n].max)
    BY <2>5, <2>6, SMT DEF create_kvrados_disk_Accepts
  <2>9. ASSUME ~ (bdDisk[n].gran > bdDisk[n].max)
        PROVE  /\ bdDisk'[n].ro = bdDisk[n].ro /\ bdDisk'[n].list = bdDisk[n].list
               /\ bdDisk'[n].gran = bdDisk[n].gran /\ bdDisk'[n].max = bdDisk[n].max
    BY <2>5, <2>6, <2>7, <2>8, <2>9, SMT DEF create_kvrados_disk_Disk, Or
  <2> QED BY <2>7, <2>8, <2>9 DEF kvrados_handle_admin_identify
<1> QED BY <1>1, DiskInductive, PTL DEF BdSpec, BdRestartKeepsDisks

================================================================================
