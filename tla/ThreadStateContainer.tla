------------------------ MODULE ThreadStateContainer ------------------------
(***************************************************************************)
(* The states of the threads that work on a pipeline.  Reset installs the  *)
(* functions a pipeline was generated with; a thread's state is created by *)
(* the installed init function when the thread first asks for it, and all  *)
(* states are destroyed by the destroy function that is installed when     *)
(* they are cleared.                                                       *)
(***************************************************************************)
EXTENDS Integers, Bags, FiniteSetsExt

(* ClearCaller is a faulty variant, kept to show that a property can fail.  *)

CONSTANTS Threads,
          main       (* the thread that runs the query                      *)

VARIABLES
  installed,    (* the pipeline whose functions are installed, 0 if none    *)
  states,       (* state of each thread: the pipeline whose init function   *)
                (* created it, 0 if it has none, and what it has collected  *)
  destroyed     (* history: for each state destroyed, the pipeline that     *)
                (* created it and the one whose function destroyed it       *)

tls == <<installed, states, destroyed>>

NoState == [born |-> 0, rows |-> EmptyBag]

Live == {t \in Threads : states[t] # NoState}

TlsInit ==
  /\ installed = 0
  /\ states = [t \in Threads |-> NoState]
  /\ destroyed = {}

ClearCaller ==
  /\ states' = [states EXCEPT ![main] = NoState]
  /\ destroyed' = destroyed \cup {<<states[t].born, installed>> : t \in Live \cap {main}}

Clear ==
  /\ states' = [t \in Threads |-> NoState]
  /\ destroyed' = destroyed \cup {<<states[t].born, installed>> : t \in Live}

\* The states are cleared before the functions are replaced.
Reset(p) == Clear /\ installed' = p

\* AccessCurrentThreadState: the state thread t gets.
StateOf(t) ==
  IF states[t] = NoState THEN [born |-> installed, rows |-> EmptyBag] ELSE states[t]

AccessCurrentThreadState(t) ==
  /\ states' = [states EXCEPT ![t] = StateOf(t)]
  /\ UNCHANGED <<installed, destroyed>>

\* What a merge over CollectThreadLocalStateElements or IterateStates reads.
AllRows == FoldSet(LAMBDA t, rows : states[t].rows (+) rows, EmptyBag, Live)
=============================================================================
