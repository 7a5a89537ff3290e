-------------------------------- MODULE Fifo --------------------------------
(***************************************************************************)
(* Processes and named FIFOs, as the kernel keeps them: none of this code  *)
(* is in the repository, and the module keeps what the programs rely on    *)
(* when they call open, close, unlink and exit.                            *)
(*                                                                         *)
(* An "end" <<p, f>> says that process p has FIFO f open, or is inside the *)
(* call that opens it.                                                     *)
(***************************************************************************)
EXTENDS Naturals, Sequences, FiniteSets

CONSTANTS Clients,     \* the client processes, one request each
          Server       \* the server process

Processes == Clients \cup {Server}

VARIABLES alive,    \* the processes that run
          paths,    \* the FIFOs that have a file in /tmp
          readers,  \* ends open, or being opened, for reading
          writers,  \* ends open, or being opened, for writing
          asleep    \* ends whose open() sleeps until the other side opens

endVars == <<readers, writers, asleep>>

HasReader(f) == \E p \in Processes : <<p, f>> \in readers
HasWriter(f) == \E p \in Processes : <<p, f>> \in writers

(* open(f, O_RDONLY): the caller counts as a reader at once, which wakes   *)
(* every writer that sleeps in open, and sleeps while there is no writer.  *)
OpenRead(p, f) ==
    /\ readers' = readers \cup {<<p, f>>}
    /\ asleep' = {e \in asleep : ~(e \in writers /\ e[2] = f)}
                     \cup (IF HasWriter(f) THEN {} ELSE {<<p, f>>})
    /\ UNCHANGED writers

(* open(f, O_WRONLY): the same with the sides exchanged.                   *)
OpenWrite(p, f) ==
    /\ writers' = writers \cup {<<p, f>>}
    /\ asleep' = {e \in asleep : ~(e \in readers /\ e[2] = f)}
                     \cup (IF HasReader(f) THEN {} ELSE {<<p, f>>})
    /\ UNCHANGED readers

(* A signal handler ran while the open() of this writer, or reader, slept: *)
(* EINTR, and the descriptor is given back.                                *)
InterruptOpenWrite(p, f) == /\ writers' = writers \ {<<p, f>>}
                            /\ asleep' = asleep \ {<<p, f>>}
                            /\ UNCHANGED readers
InterruptOpenRead(p, f) == /\ readers' = readers \ {<<p, f>>}
                           /\ asleep' = asleep \ {<<p, f>>}
                           /\ UNCHANGED writers

(* close() of one side.  A read or write that sleeps notices it when the   *)
(* last end of that side is closed.                                        *)
CloseRead(p, f) == readers' = readers \ {<<p, f>>} /\ UNCHANGED <<writers, asleep>>
CloseWrite(p, f) == writers' = writers \ {<<p, f>>} /\ UNCHANGED <<readers, asleep>>

(* The process ends, by return from main or by a signal, and the kernel    *)
(* closes its descriptors.  Names and buffered data stay.                  *)
Exit(p) == /\ alive' = alive \ {p}
           /\ readers' = {e \in readers : e[1] # p}
           /\ writers' = {e \in writers : e[1] # p}
           /\ asleep' = {e \in asleep : e[1] # p}
============================================================================
