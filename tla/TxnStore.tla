------------------------------ MODULE TxnStore ------------------------------
(***************************************************************************)
(* What a storage backend promises to SQLite: every transaction reads the  *)
(* committed state it started from, one transaction at a time writes, it   *)
(* writes on top of the latest committed state, and its end publishes all  *)
(* of what it wrote or nothing.                                            *)
(***************************************************************************)
CONSTANTS Clients_,   \* connections
          States,     \* what the store can hold
          Blank,      \* a file nobody has opened for writing yet
          Formatted   \* the same after the first such open

VARIABLES store,      \* the committed state
          mode,       \* "none", "read" or "write", for every connection
          base,       \* the state a transaction started from
          work        \* the state it sees

StoreInit ==
  /\ store = Blank
  /\ mode = [c \in Clients_ |-> "none"]
  /\ base = [c \in Clients_ |-> Blank]
  /\ work = [c \in Clients_ |-> Blank]

Format ==
  /\ store = Blank
  /\ store' = Formatted
  /\ UNCHANGED <<mode, base, work>>

Start(c, m) ==
  /\ mode[c] = "none"
  /\ m = "write" => \A o \in Clients_ : mode[o] # "write"
  /\ mode' = [mode EXCEPT ![c] = m]
  /\ base' = [base EXCEPT ![c] = store]
  /\ work' = [work EXCEPT ![c] = store]
  /\ UNCHANGED store

Upgrade(c) ==
  /\ mode[c] = "read" /\ base[c] = store
  /\ \A o \in Clients_ : mode[o] # "write"
  /\ mode' = [mode EXCEPT ![c] = "write"]
  /\ UNCHANGED <<store, base, work>>

Change(c) ==
  /\ mode[c] = "write"
  /\ \E s \in States : work' = [work EXCEPT ![c] = s]
  /\ UNCHANGED <<store, mode, base>>

Finish(c) ==
  /\ mode[c] # "none"
  /\ mode' = [mode EXCEPT ![c] = "none"]
  /\ base' = [base EXCEPT ![c] = Blank]
  /\ work' = [work EXCEPT ![c] = Blank]

Publish(c) == mode[c] = "write" /\ Finish(c) /\ store' = work[c]

Abandon(c) == Finish(c) /\ UNCHANGED store

StoreNext ==
  \/ Format
  \/ \E c \in Clients_ : \/ \E m \in {"read", "write"} : Start(c, m)
                         \/ Upgrade(c) \/ Change(c)
                         \/ Publish(c) \/ Abandon(c)

StoreSpec == StoreInit /\ [][StoreNext]_<<store, mode, base, work>>

=============================================================================
