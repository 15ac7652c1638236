---------------------------- MODULE VisionContract ----------------------------
(***************************************************************************)
(* What VisionService promises to those who see only its two tables: no    *)
(* two assets have the same content; an analysis is queued on an asset     *)
(* that is there; one analysis runs at a time; each has one outcome, and   *)
(* goes with its asset.  Files, tasks, the queue and the lifespan of the   *)
(* process do not show.                                                    *)
(***************************************************************************)
CONSTANTS Images, Assets, Analyses, None

VARIABLES image,    \* content of each asset, or None
          status,   \* of each analysis
          about     \* asset of each analysis, or None

cvars == <<image, status, about>>

Active == {"queued", "running"}

CInit ==
    /\ image = [x \in Assets |-> None]
    /\ status = [a \in Analyses |-> "none"]
    /\ about = [a \in Analyses |-> None]

Store(x, i) ==
    /\ image[x] = None /\ \A y \in Assets : image[y] # i
    /\ image' = [image EXCEPT ![x] = i]
    /\ UNCHANGED <<status, about>>

\* An analysis of the asset goes too, whatever has become of it.
Delete(x) ==
    /\ image[x] # None
    /\ image' = [image EXCEPT ![x] = None]
    /\ status' = [a \in Analyses |-> IF about[a] = x /\ status[a] # "none" THEN "gone" ELSE status[a]]
    /\ UNCHANGED about

Queue(a, x) ==
    /\ status[a] = "none" /\ image[x] # None
    /\ status' = [status EXCEPT ![a] = "queued"]
    /\ about' = [about EXCEPT ![a] = x]
    /\ UNCHANGED image

Start(a) ==
    /\ status[a] = "queued" /\ \A b \in Analyses : status[b] # "running"
    /\ status' = [status EXCEPT ![a] = "running"]
    /\ UNCHANGED <<image, about>>

Complete(a) ==
    /\ status[a] = "running"
    /\ status' = [status EXCEPT ![a] = "completed"]
    /\ UNCHANGED <<image, about>>

Fail(a) ==
    /\ status[a] \in Active
    /\ status' = [status EXCEPT ![a] = "failed"]
    /\ UNCHANGED <<image, about>>

\* A new process fails what the last one left behind.
Interrupt ==
    /\ status' = [a \in Analyses |-> IF status[a] \in Active THEN "failed" ELSE status[a]]
    /\ UNCHANGED <<image, about>>

CNext ==
    \/ \E x \in Assets : Delete(x) \/ \E i \in Images : Store(x, i)
    \/ \E a \in Analyses : Start(a) \/ Complete(a) \/ Fail(a) \/ \E x \in Assets : Queue(a, x)
    \/ Interrupt

CSpec == CInit /\ [][CNext]_cvars
=============================================================================
