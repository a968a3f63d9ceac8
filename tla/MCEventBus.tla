----------------------------- MODULE MCEventBus -----------------------------
(***************************************************************************)
(* Two workers, one entry to handle and a poison one.                      *)
(***************************************************************************)
EXTENDS EventBus

CONSTANTS w1, w2

MCWorker == {w1, w2}
MCUndecodable == {2}
MCUnhandled == {}
=============================================================================
