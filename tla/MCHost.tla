--------------------------------- MODULE MCHost ---------------------------------
(******************************************************************************)
(* Four machines that share no state, checked in one run: the Exec pool, a KV *)
(* channel, the epoch ticker and the rkv daemon.  A behaviour is one of them; *)
(* the others stay in their initial state.                                    *)
(******************************************************************************)
EXTENDS MCExecWorker, KvForward, EpochTicker, RkvDaemon

VARIABLE part

hostVars == <<part, vars, kvVars, epVars, rkvVars>>

\* The initial states of a KV channel, fixed where another machine runs.
HostInit ==
    /\ part \in {"pool", "kv", "epoch", "rkv"}
    /\ Init /\ KvInit /\ EpInit /\ RkvInit
    /\ part # "kv" => /\ kvDisk = [read_only |-> FALSE, cluster |-> FALSE]
                      /\ kvStore = KvAbsent

HostNext ==
    /\ UNCHANGED part
    /\ \/ part = "pool" /\ Next /\ UNCHANGED <<kvVars, epVars, rkvVars>>
       \/ part = "kv" /\ KvNext /\ UNCHANGED <<vars, epVars, rkvVars>>
       \/ part = "epoch" /\ EpNext /\ UNCHANGED <<vars, kvVars, rkvVars>>
       \/ part = "rkv" /\ RkvNext /\ UNCHANGED <<vars, kvVars, epVars>>

\* Every thread and process runs; nothing makes anyone submit, start or stop, and a
\* command of rkv may stop at any point.  A response that was sent is delivered; no transport
\* error is owed to a call whose response never comes.
HostFairness ==
    /\ WF_hostVars(part = "pool" /\ Worker /\ UNCHANGED <<part, kvVars, epVars, rkvVars>>)
    /\ WF_hostVars(part = "pool" /\ StopJoined /\ UNCHANGED <<part, kvVars, epVars, rkvVars>>)
    /\ \A j \in Job :
          /\ WF_hostVars(/\ part = "pool" /\ kvdev_rados_nkvx_dispatch(j)
                         /\ UNCHANGED <<part, kvVars, epVars, rkvVars>>)
          /\ WF_hostVars(/\ part = "pool" /\ kvdev_rados_nkvx_complete_on_spdk(j)
                         /\ UNCHANGED <<part, kvVars, epVars, rkvVars>>)
    /\ \A c \in KvIo :
          /\ WF_hostVars(part = "kv" /\ KvExecutor(c) /\ UNCHANGED <<part, vars, epVars, rkvVars>>)
          /\ WF_hostVars(/\ part = "kv" /\ kvReq[c].state = "answered" /\ nkvx_kv_forward_cb(c)
                         /\ UNCHANGED <<part, vars, epVars, rkvVars>>)
    /\ WF_hostVars(part = "epoch" /\ Ticker /\ UNCHANGED <<part, vars, kvVars, rkvVars>>)
    /\ WF_hostVars(part = "epoch" /\ EpochTrap /\ UNCHANGED <<part, vars, kvVars, rkvVars>>)
    /\ \A d \in RkvProcess :
          WF_hostVars(part = "rkv" /\ RkvServes(d) /\ UNCHANGED <<part, vars, kvVars, epVars>>)

HostSpec == HostInit /\ [][HostNext]_hostVars /\ HostFairness

===============================================================================
