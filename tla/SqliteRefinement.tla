-------------------------- MODULE SqliteRefinement --------------------------
(***************************************************************************)
(* The SQLite backend beside the in-memory storage: both implement the     *)
(* interface SessionStorage, so any one session of the database is mapped  *)
(* to the state a MemoryStorage of that session would hold.                *)
(***************************************************************************)
EXTENDS SqliteStorage

CONSTANT session \* the session that is mapped, any of them

ASSUME SessionAssumption == session \in Sessions

Memory == INSTANCE MemoryStorage WITH
            state <- IF session \in DOMAIN db THEN View(db[session])
                     ELSE InitialState

\* While it exists, a session changes only the way the in-memory storage
\* changes it: every step of every process is one accepted write or nothing.
ImplementsMemory ==
    [][(session \in DOMAIN db /\ session \in DOMAIN db') =>
            \/ View(db'[session]) = View(db[session])
            \/ Memory!Next]_vars
=============================================================================
