------------------------------ MODULE MCBridge ------------------------------
(***************************************************************************)
(* A window and those who call it, on small instances: whether it is       *)
(* published (BridgePublication), and the calls it answers (BridgeRpc).    *)
(* A behaviour of this module is a behaviour of one of the two while the   *)
(* other stays as it began.                                                *)
(***************************************************************************)
EXTENDS BridgePublication, TLC

CONSTANTS c1, c2, Calls, Offered, MaxStops, MaxErrors

VARIABLES part, listening, rpcLifecycle, call, up, down, peer, entry, begun, completed, stops, errors

MCOffered == {"apply_change_set", "read_document"}

Rpc == INSTANCE BridgeRpc WITH lifecycle <- rpcLifecycle

ASSUME CallsAssumption == Rpc!RpcAssumption

rpcVars == <<listening, rpcLifecycle, call, up, down, peer, entry, begun, completed, stops, errors>>

\* The one at rest has a single initial state.
MCInit ==
    /\ part \in {"publication", "rpc"} /\ Init /\ Rpc!Init
    /\ part = "rpc" => allowed
    /\ part = "publication" =>
          rpcLifecycle = "ready" /\ \A c \in Calls : call[c].token /\ call[c].tool = "read_document"

MCNext ==
    /\ part' = part
    /\ \/ part = "publication" /\ Next /\ UNCHANGED rpcVars
       \/ part = "rpc" /\ Rpc!Next /\ UNCHANGED vars

MCSpec == MCInit /\ [][MCNext]_<<part, vars, rpcVars>>

\* Calls through the window implement RemoteCall (BridgeRpc).
ImplementsRemoteCall == Rpc!ImplementsRemoteCall

\* handle: an activity entry says how its call ended (BridgeRpc).
EntryTruthful == Rpc!EntryTruthful

\* request: every call closes its connection in the end, when its own timers and the window are
\* not put off for ever (BridgeRpc).
EveryCallEnds == part = "rpc" /\ Rpc!Fairness => Rpc!EveryCallCloses

\* #reconcile: every run of the window ends, when no step of it is put off for ever
\* (BridgePublication).
EveryRunEnds == part = "publication" /\ Fairness => Settles
=============================================================================
