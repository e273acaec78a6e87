------------------------------- MODULE RkvDaemon -------------------------------
(********************************************************************************)
(* The rados-nkv command line and its session daemon (clients/rkv/src:          *)
(* daemon.rs, datapath.rs, and cmd_store, cmd_get, cmd_exec of main.rs).        *)
(* A command goes to the daemon that answers on the socket, or opens a          *)
(* session of its own; one operator runs `daemon start' and `daemon stop';      *)
(* others write the same key through other sessions at any time, so every       *)
(* read of it finds any length.                                                 *)
(*                                                                              *)
(* One key.  Of a value its length is kept.  A process stands for its pid,      *)
(* which is used again only once it is gone.                                    *)
(********************************************************************************)
EXTENDS Naturals

CONSTANTS
    RkvProcess,  \* daemon-run processes
    RkvClient,   \* command line invocations
    RkvNone,     \* no process, no client, no length
    RkvLength,   \* lengths of values
    RkvHint,     \* RETRIEVE_HINT
    RkvMax       \* MAX_VALUE

ASSUME RkvAssumption ==
    /\ RkvNone \notin RkvProcess \cup RkvClient \cup RkvLength
    /\ RkvLength \subseteq Nat /\ RkvHint \in Nat /\ RkvMax \in Nat

VARIABLES
    rkvSock,    \* the process whose listener the socket path names
    rkvPid,     \* the pid file
    rkvProc,    \* per process: its place, flags, connection and probed length
    rkvCmd,     \* per invocation
    rkvOper,    \* the operator
    rkvDoubt    \* history: a live daemon was taken for dead

rkvVars == <<rkvSock, rkvPid, rkvProc, rkvCmd, rkvOper, rkvDoubt>>

\* Session::exec runs and runs again exactly as Session::retrieve reads: both are "get".
RkvVerb == {"store", "get"}
RkvGone == [pc |-> "gone", sig |-> FALSE, shut |-> FALSE, conn |-> RkvNone, probed |-> RkvNone]
RkvIdle == [pc |-> "idle", verb |-> "get", to |-> RkvNone,
            probed |-> RkvNone, ran |-> 0, whole |-> TRUE]

Serving == {"accept", "ping", "read", "op", "reread"}
Listening(d) == rkvProc[d].pc \in Serving \cup {"dropping"}
Alive(d) == d # RkvNone /\ rkvProc[d].pc # "gone"

(********************************************************************************)
(* Types.  A process: opening its session, unlinked the old socket, waiting in  *)
(* accept, in a connection (before the ping, waiting for the request, with it,  *)
(* and between the two reads of one operation), releasing, gone.                *)
(********************************************************************************)
RkvTypeOK ==
    /\ rkvSock \in RkvProcess \cup {RkvNone} /\ rkvPid \in RkvProcess \cup {RkvNone}
    /\ rkvProc \in [RkvProcess ->
          [pc : Serving \cup {"opening", "unlinked", "dropping", "gone"},
           sig : BOOLEAN, shut : BOOLEAN, conn : RkvClient \cup {RkvNone},
           probed : RkvLength \cup {RkvNone}]]
    /\ rkvCmd \in [RkvClient ->
          [pc : {"idle", "pinging", "live", "sent", "direct", "reread", "ok", "error"},
           verb : RkvVerb, to : RkvProcess \cup {RkvNone}, probed : RkvLength \cup {RkvNone},
           ran : 0..1, whole : BOOLEAN]]
    /\ rkvOper \in [pc : {"idle", "spawn", "starting", "waiting", "killed"},
                    pid : RkvProcess \cup {RkvNone}]
    /\ rkvDoubt \in BOOLEAN

RkvInit ==
    /\ rkvSock = RkvNone /\ rkvPid = RkvNone
    /\ rkvProc = [d \in RkvProcess |-> RkvGone]
    /\ rkvCmd = [c \in RkvClient |-> RkvIdle]
    /\ rkvOper = [pc |-> "idle", pid |-> RkvNone]
    /\ rkvDoubt = FALSE

--------------------------------------------------------------------------------
(********************************************************************************)
(* Session: one operation on the target.                                        *)
(********************************************************************************)
\* What the first read of an operation into a buffer of RETRIEVE_HINT does, and the
\* second one into a buffer of the probed length.
FitsHint(len) == len <= RkvHint
TooBig(len) == len > RkvMax
SizeAgrees(probed, len) == probed = len

\* Store or first Retrieve on behalf of c, which finds a value of length len: the
\* record after it.  Only a length between the two bounds is read again.
NeedsReread(c, len) == rkvCmd[c].verb = "get" /\ ~FitsHint(len) /\ ~TooBig(len)
FirstPass(c, len) ==
    IF rkvCmd[c].verb = "store" THEN [rkvCmd[c] EXCEPT !.pc = "ok", !.ran = rkvCmd[c].ran + 1]
    ELSE [rkvCmd[c] EXCEPT !.pc = IF TooBig(len) THEN "error" ELSE "ok"]

RkvFailed(c) == [rkvCmd[c] EXCEPT !.pc = "error", !.probed = RkvNone]

\* The second pass: all of the value, or an error if its length has changed.
SecondPass(c, len, probed) ==
    IF SizeAgrees(probed, len)
    THEN [rkvCmd[c] EXCEPT !.pc = "ok", !.probed = RkvNone, !.whole = (probed = len)]
    ELSE RkvFailed(c)

--------------------------------------------------------------------------------
(********************************************************************************)
(* A command: try_forward, and the session of its own when there is no daemon.  *)
(********************************************************************************)
\* No socket or a refused connection: no daemon.  A store with honoured options never
\* tries (`forwardable' is FALSE).
try_forward(c, verb, forwardable) ==
    /\ rkvCmd[c].pc = "idle"
    /\ forwardable \/ verb = "store"
    /\ LET found == forwardable /\ rkvSock # RkvNone /\ Listening(rkvSock)
       IN  rkvCmd' = [rkvCmd EXCEPT ![c] =
              [RkvIdle EXCEPT !.verb = verb,
                              !.pc = IF found THEN "pinging" ELSE "direct",
                              !.to = IF found THEN rkvSock ELSE RkvNone]]
    /\ UNCHANGED <<rkvSock, rkvPid, rkvProc, rkvOper, rkvDoubt>>

\* No answer within the read timeout, or the daemon is gone: before the ping is answered
\* this means no daemon, afterwards an error.
try_forward_Fails_FallsBack(c) ==
    /\ rkvCmd[c].pc \in {"pinging", "live", "sent"}
    /\ rkvCmd' = [rkvCmd EXCEPT ![c] = [rkvCmd[c] EXCEPT !.pc = "direct"]]
    /\ UNCHANGED <<rkvSock, rkvPid, rkvProc, rkvOper, rkvDoubt>>
try_forward_Fails(c) ==
    /\ rkvCmd[c].pc \in {"pinging", "live", "sent"}
    /\ rkvCmd' = [rkvCmd EXCEPT ![c] =
          [rkvCmd[c] EXCEPT !.pc = IF rkvCmd[c].pc = "pinging" THEN "direct" ELSE "error",
                            !.to = RkvNone]]
    /\ UNCHANGED <<rkvSock, rkvPid, rkvProc, rkvOper, rkvDoubt>>

\* The ping was answered: the request is sent.
try_forward_Sends(c) ==
    /\ rkvCmd[c].pc = "live"
    /\ rkvCmd' = [rkvCmd EXCEPT ![c] = [rkvCmd[c] EXCEPT !.pc = "sent"]]
    /\ UNCHANGED <<rkvSock, rkvPid, rkvProc, rkvOper, rkvDoubt>>

\* cmd_store and cmd_get on a session of their own; opening it, or an
\* operation, may fail.
Direct(c) ==
    /\ rkvCmd[c].pc \in {"direct", "reread"}
    /\ \/ rkvCmd' = [rkvCmd EXCEPT ![c] = RkvFailed(c)]
       \/ /\ rkvCmd[c].pc = "direct"
          /\ \E len \in RkvLength : rkvCmd' = [rkvCmd EXCEPT ![c] =
                IF NeedsReread(c, len) THEN [rkvCmd[c] EXCEPT !.pc = "reread", !.probed = len]
                ELSE FirstPass(c, len)]
       \/ /\ rkvCmd[c].pc = "reread"
          /\ \E len \in RkvLength :
                rkvCmd' = [rkvCmd EXCEPT ![c] = SecondPass(c, len, rkvCmd[c].probed)]
    /\ UNCHANGED <<rkvSock, rkvPid, rkvProc, rkvOper, rkvDoubt>>

\* The command exits.  A request it sent may still be in a daemon's hands.
Exit(c) ==
    /\ rkvCmd[c].pc \in {"ok", "error"}
    /\ \A d \in RkvProcess : rkvProc[d].conn # c
    /\ rkvCmd' = [rkvCmd EXCEPT ![c] = RkvIdle]
    /\ UNCHANGED <<rkvSock, rkvPid, rkvProc, rkvOper, rkvDoubt>>

--------------------------------------------------------------------------------
(********************************************************************************)
(* daemon-run.                                                                  *)
(********************************************************************************)
Move(d, pc) == rkvProc' = [rkvProc EXCEPT ![d] = [rkvProc[d] EXCEPT !.pc = pc]]

\* Session::open, and then the old socket is unlinked; a failed open is the end.
run_Open(d) ==
    /\ rkvProc[d].pc = "opening"
    /\ \/ Move(d, "unlinked") /\ rkvSock' = RkvNone
       \/ rkvProc' = [rkvProc EXCEPT ![d] = RkvGone] /\ UNCHANGED rkvSock
    /\ UNCHANGED <<rkvPid, rkvCmd, rkvOper, rkvDoubt>>

\* bind fails if another process has bound the path meanwhile.
run_Bind(d) ==
    /\ rkvProc[d].pc = "unlinked"
    /\ IF rkvSock = RkvNone
       THEN Move(d, "accept") /\ rkvSock' = d
       ELSE rkvProc' = [rkvProc EXCEPT ![d] = RkvGone] /\ UNCHANGED rkvSock
    /\ UNCHANGED <<rkvPid, rkvCmd, rkvOper, rkvDoubt>>

\* incoming: the stop flag first, then the next connection.
incoming(d, c) ==
    /\ rkvProc[d].pc = "accept" /\ ~rkvProc[d].sig
    /\ rkvCmd[c].pc = "pinging" /\ rkvCmd[c].to = d
    /\ rkvProc' = [rkvProc EXCEPT ![d] = [rkvProc[d] EXCEPT !.pc = "ping", !.conn = c]]
    /\ UNCHANGED <<rkvSock, rkvPid, rkvCmd, rkvOper, rkvDoubt>>

HangsUp(d) == rkvProc' = [rkvProc EXCEPT ![d] =
                  [rkvProc[d] EXCEPT !.pc = "accept", !.conn = RkvNone, !.probed = RkvNone]]

\* handle_conn: the ping is answered, then the request is read.  The daemon is held up by
\* the command, until it hangs up or the read times out.
handle_conn_Ping(d) ==
    /\ rkvProc[d].pc = "ping" /\ rkvCmd[rkvProc[d].conn].pc = "pinging"
    /\ Move(d, "read")
    /\ LET c == rkvProc[d].conn
       IN  rkvCmd' = [rkvCmd EXCEPT ![c] = [rkvCmd[c] EXCEPT !.pc = "live"]]
    /\ UNCHANGED <<rkvSock, rkvPid, rkvOper, rkvDoubt>>

handle_conn_Request(d) ==
    /\ rkvProc[d].pc = "read" /\ rkvCmd[rkvProc[d].conn].pc = "sent"
    /\ Move(d, "op")
    /\ UNCHANGED <<rkvSock, rkvPid, rkvCmd, rkvOper, rkvDoubt>>

handle_conn_Ends_HungUp(d) ==
    /\ rkvProc[d].pc \in {"ping", "read"}
    /\ rkvCmd[rkvProc[d].conn].pc \notin {"pinging", "live", "sent"}
    /\ HangsUp(d)
    /\ UNCHANGED <<rkvSock, rkvPid, rkvCmd, rkvOper, rkvDoubt>>
handle_conn_Ends(d) ==
    /\ rkvProc[d].pc \in {"ping", "read"}
    /\ rkvCmd[rkvProc[d].conn].pc \notin {"pinging", "sent"}
    /\ HangsUp(d)
    /\ UNCHANGED <<rkvSock, rkvPid, rkvCmd, rkvOper, rkvDoubt>>

\* The answer reaches a command that still waits for it.
Answered(c, record) ==
    rkvCmd' = [rkvCmd EXCEPT ![c] =
        IF rkvCmd[c].pc = "sent" THEN record ELSE [rkvCmd[c] EXCEPT !.ran = record.ran]]

\* serve_op: the whole operation, or the probe of one that is read again.
serve_op(d) ==
    LET c == rkvProc[d].conn
    IN  /\ rkvProc[d].pc \in {"op", "reread"}
        /\ \/ Answered(c, RkvFailed(c)) /\ HangsUp(d)
           \/ /\ rkvProc[d].pc = "op"
              /\ \E len \in RkvLength :
                    IF NeedsReread(c, len)
                    THEN /\ rkvProc' = [rkvProc EXCEPT ![d] =
                                [rkvProc[d] EXCEPT !.pc = "reread", !.probed = len]]
                         /\ UNCHANGED rkvCmd
                    ELSE Answered(c, FirstPass(c, len)) /\ HangsUp(d)
           \/ /\ rkvProc[d].pc = "reread"
              /\ \E len \in RkvLength : Answered(c, SecondPass(c, len, rkvProc[d].probed))
              /\ HangsUp(d)
        /\ UNCHANGED <<rkvSock, rkvPid, rkvOper, rkvDoubt>>

\* The loop ends, on the flag or on a queued Shutdown: the session is dropped.
run_Ends(d) ==
    /\ rkvProc[d].pc = "accept" /\ (rkvProc[d].sig \/ rkvProc[d].shut)
    /\ Move(d, "dropping")
    /\ UNCHANGED <<rkvSock, rkvPid, rkvCmd, rkvOper, rkvDoubt>>

\* Then the socket path is unlinked, whosever it is, and the process exits.
run_Exits(d) ==
    /\ rkvProc[d].pc = "dropping"
    /\ rkvSock' = RkvNone
    /\ rkvProc' = [rkvProc EXCEPT ![d] = RkvGone]
    /\ UNCHANGED <<rkvPid, rkvCmd, rkvOper, rkvDoubt>>

\* A daemon dies; its socket and pid file stay.
RkvCrash(d) ==
    /\ Alive(d)
    /\ rkvProc' = [rkvProc EXCEPT ![d] = RkvGone]
    /\ UNCHANGED <<rkvSock, rkvPid, rkvCmd, rkvOper, rkvDoubt>>

--------------------------------------------------------------------------------
(********************************************************************************)
(* The operator.  A ping changes nothing; one that is not answered within five  *)
(* seconds counts as no daemon, though the daemon may only be busy.             *)
(********************************************************************************)
Pings(answer) == answer => rkvSock # RkvNone /\ rkvProc[rkvSock].pc \in Serving
MissedLive == rkvSock # RkvNone /\ rkvProc[rkvSock].pc \in Serving

Operator(pc, pid) == rkvOper' = [pc |-> pc, pid |-> pid]

\* start: refuse, or unlink what is there.
start_Unchecked(answer) ==
    /\ rkvOper.pc = "idle" /\ Pings(answer)
    /\ Operator("spawn", RkvNone)
    /\ rkvSock' = RkvNone
    /\ UNCHANGED <<rkvPid, rkvProc, rkvCmd, rkvDoubt>>
start(answer) ==
    /\ rkvOper.pc = "idle" /\ Pings(answer)
    /\ IF answer THEN UNCHANGED <<rkvOper, rkvSock, rkvDoubt>>
       ELSE /\ Operator("spawn", RkvNone)
            /\ rkvSock' = RkvNone
            /\ rkvDoubt' = (rkvDoubt \/ MissedLive)
    /\ UNCHANGED <<rkvPid, rkvProc, rkvCmd>>

\* The child, and its pid in the file.  A connection to a dead process is not one to d.
start_Spawn(d) ==
    /\ rkvOper.pc = "spawn" /\ rkvProc[d].pc = "gone"
    /\ \A c \in RkvClient : rkvCmd[c].pc \in {"pinging", "live", "sent"} => rkvCmd[c].to # d
    /\ rkvProc' = [rkvProc EXCEPT ![d] = [RkvGone EXCEPT !.pc = "opening"]]
    /\ rkvPid' = d
    /\ Operator("starting", d)
    /\ UNCHANGED <<rkvSock, rkvCmd, rkvDoubt>>

\* Answered, or given up after thirty seconds; the child is left alone.
start_Waited(answer) ==
    /\ rkvOper.pc = "starting" /\ Pings(answer)
    /\ Operator("idle", RkvNone)
    /\ rkvDoubt' = (rkvDoubt \/ (~answer /\ Alive(rkvOper.pid)))
    /\ UNCHANGED <<rkvSock, rkvPid, rkvProc, rkvCmd>>

\* stop: Shutdown is queued with the daemon that answered; the pid is read.
stop(answer) ==
    /\ rkvOper.pc = "idle" /\ Pings(answer)
    /\ rkvProc' = IF answer
                  THEN [rkvProc EXCEPT ![rkvSock] = [rkvProc[rkvSock] EXCEPT !.shut = TRUE]]
                  ELSE rkvProc
    /\ Operator("waiting", rkvPid)
    /\ UNCHANGED <<rkvSock, rkvPid, rkvCmd, rkvDoubt>>

\* Ten seconds are over and the process lives: SIGTERM, which kills a process that has
\* not installed its handler.
stop_Kill ==
    /\ rkvOper.pc = "waiting" /\ Alive(rkvOper.pid)
    /\ Operator("killed", rkvOper.pid)
    /\ rkvProc' = [rkvProc EXCEPT ![rkvOper.pid] =
          IF rkvProc[rkvOper.pid].pc \in {"opening", "unlinked"} THEN RkvGone
          ELSE [rkvProc[rkvOper.pid] EXCEPT !.sig = TRUE]]
    /\ UNCHANGED <<rkvSock, rkvPid, rkvCmd, rkvDoubt>>

\* The files are removed: nothing answers and the process is gone, or five more seconds
\* are over.
stop_Cleanup ==
    /\ \/ rkvOper.pc = "waiting" /\ ~Alive(rkvOper.pid)
       \/ rkvOper.pc = "killed"
    /\ rkvSock' = RkvNone /\ rkvPid' = RkvNone
    /\ Operator("idle", RkvNone)
    /\ rkvDoubt' = (rkvDoubt \/ Alive(rkvOper.pid) \/ MissedLive)
    /\ UNCHANGED <<rkvProc, rkvCmd>>

--------------------------------------------------------------------------------
RkvServes(d) ==
    \/ run_Open(d) \/ run_Bind(d)
    \/ handle_conn_Ping(d) \/ handle_conn_Request(d) \/ handle_conn_Ends(d) \/ serve_op(d)
    \/ run_Ends(d) \/ run_Exits(d)

RkvNext ==
    \/ \E c \in RkvClient, verb \in RkvVerb, forwardable \in BOOLEAN :
          try_forward(c, verb, forwardable)
    \/ \E c \in RkvClient : try_forward_Sends(c) \/ try_forward_Fails(c) \/ Direct(c) \/ Exit(c)
    \/ \E d \in RkvProcess :
          RkvServes(d) \/ RkvCrash(d) \/ start_Spawn(d) \/ \E c \in RkvClient : incoming(d, c)
    \/ \E answer \in BOOLEAN : start(answer) \/ start_Waited(answer) \/ stop(answer)
    \/ stop_Kill \/ stop_Cleanup

RkvSpec == RkvInit /\ [][RkvNext]_rkvVars

--------------------------------------------------------------------------------
(********************************************************************************)
(* A Store is applied at most once per command, by whichever of daemon and own  *)
(* session, and exactly once when the command reports success; falling back is  *)
(* safe because it happens only before the request is sent.                     *)
(********************************************************************************)
RkvStoresOnce ==
    \A c \in RkvClient : rkvCmd[c].verb = "store" =>
        /\ rkvCmd[c].ran <= 1
        /\ rkvCmd[c].pc = "ok" => rkvCmd[c].ran = 1

(********************************************************************************)
(* A get or exec that succeeds returns the value in full, though it is read     *)
(* twice and others store in between ("this never silently truncates").         *)
(********************************************************************************)
RkvGetIsWhole == \A c \in RkvClient : rkvCmd[c].pc = "ok" => rkvCmd[c].whole

(********************************************************************************)
(* A command does what it reports, through the daemon or on its own: a Store is *)
(* applied once, and a get or exec returns all of the value.                    *)
(********************************************************************************)
RkvCommandExact == RkvTypeOK /\ RkvStoresOnce /\ RkvGetIsWhole

(********************************************************************************)
(* "Refuses to start a second daemon": at most one daemon runs, and the socket  *)
(* leads to it, unless a live daemon was taken for dead: one that did not       *)
(* answer a ping in time, did not come up or did not go away in time.           *)
(********************************************************************************)
RkvOneDaemon ==
    rkvDoubt \/ /\ \A d, e \in RkvProcess : Alive(d) /\ Alive(e) => d = e
                /\ \A d \in RkvProcess : rkvProc[d].pc \in Serving => rkvSock = d

(********************************************************************************)
(* A daemon that got SIGTERM releases its session, even in the middle of a      *)
(* connection and with clients that never stop calling.                         *)
(********************************************************************************)
RkvTermReleases == \A d \in RkvProcess : rkvProc[d].sig ~> rkvProc[d].pc = "gone"

================================================================================
