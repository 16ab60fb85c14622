---------------------------- MODULE MCComponent ----------------------------
(***************************************************************************)
(* Instances of C2RKComponent for TLC.  A configuration picks one of the   *)
(* distributions of calls over clients and one numbering of frames.        *)
(***************************************************************************)
EXTENDS ComponentInv

CONSTANTS c1, c2, looper

OneClient == {c1}
TwoClients == {c1, c2}

\* one client that makes every call of the interface, legal then or not
AllOps == [c \in {c1} |-> OpName \ {"clearListenerMayBlock"}]

\* one client that never releases and never takes the listener away
SessionOps == [c \in {c1} |-> {"setListener", "queue", "flush", "drain",
                               "start", "stop", "reset"}]

\* a client that feeds the component while another one stops and flushes it
SplitOps == [c \in {c1, c2} |->
                IF c = c1 THEN {"setListener", "start", "queue", "drain"}
                          ELSE {"flush", "stop", "clearListenerMayBlock"}]

\* two clients that start the component
StartOps == [c \in {c1, c2} |-> {"setListener", "start", "stop"}]

DistinctFrames == [w \in Work |-> w]
\* works 1 and 2 have one frame index, works 3 and 4 the next
RepeatedFrames == [w \in Work |-> (w + 1) \div 2]

=============================================================================
