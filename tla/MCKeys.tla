------------------------------- MODULE MCKeys -------------------------------
(***************************************************************************)
(* A small instance of KeyState.                                           *)
(***************************************************************************)
EXTENDS KeyState, TLC

CONSTANTS t1, t2

MCThreads == {t1, t2}
Symmetry == Permutations(MCThreads)

(* Of a state that only threads still refer to, later steps and the        *)
(* properties read nothing but the reference count.                        *)
View ==
    <<fileVars, db, db_revoked, internal, held, pipe, loop, fs, pending,
      effective, published, faults,
      [h \in Handles |-> IF h \in {internal, fs} THEN ks[h]
                         ELSE [refcnt |-> ks[h].refcnt]]>>
=============================================================================
