------------------------- MODULE SelectionOperations ------------------------
(***************************************************************************)
(* connect_best with the tunnel it drives.  Every call of the loop is one  *)
(* of the operations of module Daemon, which LinuxOperations relates to    *)
(* the kernel; Daemon takes the whole request for one step, and here what  *)
(* it assumes of that step is stated of the loop.                          *)
(***************************************************************************)
EXTENDS Selection

VARIABLES
    config,  \* the configuration in force: kill switch, bypass
    owns,    \* State.tunnel.is_some()
    armed,   \* that tunnel has a kill switch of its own
    routed,  \* and a bypass
    exit,    \* the server that traffic comes out of
    nft,     \* the kill switch table
    before   \* history: all of this when the last request returned

driven == <<owns, armed, routed, exit, nft>>
operations == <<config, driven, before>>

Rulesets == [on : BOOLEAN, bypass : BOOLEAN]

\* What a request finds and leaves.
Sight == [owns |-> owns, armed |-> armed, routed |-> routed,
          current |-> current, exit |-> exit, nft |-> nft]

\* Rules and an interface may be left over from a daemon that was killed.
InitOperations ==
    /\ Init
    /\ config \in [ks : BOOLEAN, bypass : BOOLEAN]
    /\ owns = FALSE
    /\ armed = FALSE
    /\ routed = FALSE
    /\ exit \in Ranks \cup {0}
    /\ nft \in Rulesets
    /\ before = Sight

\* The tunnel that the loop drives, candidate by candidate.
Live == INSTANCE Daemon WITH
    Servers <- Ranks, NoServer <- 0, Countries <- {}, Configs <- {}, Rtts <- {},
    Scores <- {}, MaxLatency <- 0, Threshold <- 0,
    phase <- "running", cached <- TRUE, ranking <- {}, pending <- 0,
    dismissed <- 0, cooling <- FALSE, refused <- 0, restoring <- 0,
    tuning <- FALSE, probe <- 0

\* The tunnel between requests.
Request == INSTANCE Daemon WITH
    Servers <- Ranks, NoServer <- 0, Countries <- {}, Configs <- {}, Rtts <- {},
    Scores <- {}, MaxLatency <- 0, Threshold <- 0,
    phase <- "running", cached <- TRUE, ranking <- {}, pending <- 0,
    dismissed <- 0, cooling <- FALSE, refused <- 0, restoring <- 0,
    tuning <- FALSE, probe <- 0,
    owns <- before.owns, armed <- before.armed, routed <- before.routed,
    current <- before.current, exit <- before.exit, nft <- before.nft

Asked_StaysOnLast == IF idx <= n THEN idx ELSE current

\* The candidate that move_to is called with, unless the tunnel is there.
Asked == IF idx <= n THEN idx ELSE best

\* establish for the first candidate, move_to from the second on.
Drive ==
    \/ /\ pc = "try"
       /\ idx = 1
       /\ Live!Established(1) \/ Live!EstablishFailed(1)
    \/ /\ pc = "try"
       /\ idx > 1
       /\ Asked \notin {0, current}
       /\ Live!Retargeted(Asked) \/ Live!RetargetFailed(Asked)
    \/ /\ pc = "try"
       /\ idx > 1
       /\ Asked \in {0, current}
       /\ UNCHANGED driven
    \/ /\ pc \in {"done", "error"}
       /\ owns
       /\ Live!TornDown \/ Live!TearDownFailed
    \/ /\ pc \in {"done", "error"}
       /\ ~owns
       /\ UNCHANGED driven
    \/ /\ pc \notin {"try", "done", "error"}
       /\ UNCHANGED driven

\* The file is reloaded only between requests.
NextOperations ==
    /\ Next
    /\ Drive
    /\ IF pc' = "idle" THEN config' \in [ks : BOOLEAN, bypass : BOOLEAN]
                       ELSE UNCHANGED config
    /\ before' = IF pc' \in {"idle", "done", "error"} THEN Sight' ELSE before

SpecOperations ==
    InitOperations /\ [][NextOperations]_<<vars, operations>>

\* However many candidates the loop went through, a connect_best that succeeds
\* has done what one establish of the server it kept does, whatever the kernel
\* held before; one that fails has left what a failed establish leaves, or is
\* on one candidate with its traffic there, on the way to another, or nowhere.
\* A sweep that reaches nothing touches nothing.
RequestAsAssumed ==
    [][/\ pc' = "done" => Request!Established(current')
       /\ pc # "rank" /\ pc' = "error" =>
            \/ Request!EstablishFailed(1)
            \/ \E c, d \in 1..n : Request!StoppedShort(c, d)
       /\ pc = "rank" /\ pc' = "error" => UNCHANGED before]_<<vars, operations>>
=============================================================================
