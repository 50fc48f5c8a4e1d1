------------------------ MODULE MCPersistentSession ------------------------
(* Model checking of PersistentSession: the constants are given in the      *)
(* .cfg files.                                                              *)
EXTENDS PersistentSession

\* Both ends run one suite; the initiator comes from an earlier release if the
\* suite allows it, the responder from this one.
MCInit ==
    /\ PersistInit
    /\ ratchet["Initiator"].suite = ratchet["Responder"].suite
    /\ \A record \in records["Initiator"] :
         record.version = LEGACY_VERSION <=> record.state.suite = DEFAULT_SUITE
    /\ \A record \in records["Responder"] : record.version = VERSION

MCSpec == MCInit /\ [][PersistNext]_persistVars

============================================================================
