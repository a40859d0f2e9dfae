------------------------- MODULE ConnectionService -------------------------
(***************************************************************************)
(* What AdminServer promises about connections, without its threads: one   *)
(* that arrives is refused when Bound others wait, and only then; those    *)
(* that wait are served in the order in which they came, at most Servers   *)
(* of them at a time; each is closed once; and the service goes down with  *)
(* none in its hands, after which nothing arrives and nothing is served.   *)
(***************************************************************************)
EXTENDS Naturals, Sequences, FiniteSets

CONSTANTS Conns,        \* the connections clients ask for
          Bound,        \* how many may wait
          Servers       \* how many are served at a time

VARIABLES arriving,     \* the connection that has just been accepted, if any
          waiting,      \* those that wait, the first come first
          serving,      \* those that are served
          refused,      \* those that were turned away
          closed,       \* those whose service has ended
          up            \* whether there is a service

serviceVars == <<arriving, waiting, serving, refused, closed, up>>

ServiceInit ==
    /\ arriving = {} /\ waiting = <<>> /\ serving = {}
    /\ refused = {} /\ closed = {}
    /\ up = TRUE

Known == arriving \cup {waiting[i] : i \in DOMAIN waiting} \cup serving \cup refused \cup closed

Arrive(c) ==
    /\ up /\ arriving = {} /\ c \notin Known
    /\ arriving' = {c}
    /\ UNCHANGED <<waiting, serving, refused, closed, up>>

Refuse(c) ==
    /\ c \in arriving /\ Len(waiting) = Bound
    /\ arriving' = {}
    /\ refused' = refused \cup {c}
    /\ UNCHANGED <<waiting, serving, closed, up>>

Admit(c) ==
    /\ c \in arriving /\ Len(waiting) < Bound
    /\ arriving' = {}
    /\ waiting' = Append(waiting, c)
    /\ UNCHANGED <<serving, refused, closed, up>>

Serve ==
    /\ up /\ waiting # <<>> /\ Cardinality(serving) < Servers
    /\ serving' = serving \cup {Head(waiting)}
    /\ waiting' = Tail(waiting)
    /\ UNCHANGED <<arriving, refused, closed, up>>

Close(c) ==
    /\ c \in serving /\ up
    /\ serving' = serving \ {c}
    /\ closed' = closed \cup {c}
    /\ UNCHANGED <<arriving, waiting, refused, up>>

GoDown ==
    /\ up /\ arriving = {} /\ serving = {}
    /\ up' = FALSE
    /\ UNCHANGED <<arriving, waiting, serving, refused, closed>>

ServiceNext ==
    \/ \E c \in Conns : Arrive(c) \/ Refuse(c) \/ Admit(c) \/ Close(c)
    \/ Serve \/ GoDown

ServiceSpec == ServiceInit /\ [][ServiceNext]_serviceVars
=============================================================================
