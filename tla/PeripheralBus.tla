---------------------------- MODULE PeripheralBus ----------------------------
(***************************************************************************)
(* The I/O ports of a machine (src/machine/peripheral.go, io.go): who owns *)
(* a port, and which handler the CPU's IN and OUT reach on it.             *)
(*                                                                         *)
(* PeripheralBus keeps owners beside the callback table of CallbackIO.     *)
(* The table can also be written directly (OnInput, OnOutput, the          *)
(* terminal's AttachPorts), without the owners being told.  A place is a   *)
(* direction and a port.  Every operation of the bus runs under its mutex, *)
(* so is one step.  A binding is the set of its places, one handler for    *)
(* all of them, and whether it lists a port twice.  A definition named X_Y *)
(* just before X is X with a plausible mistake Y, used nowhere.            *)
(***************************************************************************)

CONSTANTS
  Port, Name, Handler,
  Nobody,              \* the empty name
  NoHandler            \* a nil callback

ASSUME NobodyAssumption == Nobody \notin Name
ASSUME NoHandlerAssumption == NoHandler \notin Handler

Direction == {"input", "output"}
Place == Direction \X Port

VARIABLES
  owners,      \* inputOwners and outputOwners
  callbacks,   \* inputCallbacks and outputCallbacks
  granted,     \* history: the handler each owner attached at each of its places
  direct,      \* history: places written by OnInput or OnOutput since the last attach or detach
  call         \* history: the last call and whether it was refused

busVars == <<owners, callbacks, granted, direct, call>>

Binding ==
  {b \in [places : SUBSET Place, handler : Handler \cup {NoHandler}, repeats : BOOLEAN] :
     b.places # {} \/ (~b.repeats /\ b.handler = NoHandler)}

Init ==
  /\ owners = [p \in Place |-> Nobody]
  /\ callbacks = [p \in Place |-> NoHandler]
  /\ granted = [p \in Place |-> NoHandler]
  /\ direct = {}
  /\ call = [op |-> "new", refused |-> FALSE]

\* inputOwner and outputOwner: a port is taken if it has an owner, or a handler
\* installed directly.
Free_IgnoresDirect(p) == owners[p] = Nobody
Free(p) == owners[p] = Nobody /\ callbacks[p] = NoHandler

\* What Attach checks before it changes anything.
Valid(name, b) ==
  /\ name # Nobody
  /\ ~b.repeats
  /\ \A p \in b.places : b.handler # NoHandler /\ Free(p)

At(f, places, v) == [p \in Place |-> IF p \in places THEN v ELSE f[p]]

Grant(name, places, h) ==
  /\ owners' = At(owners, places, name)
  /\ callbacks' = At(callbacks, places, h)
  /\ granted' = At(granted, places, h)
  /\ direct' = direct \ places

Attach_InputsFirst(name, b) ==
  LET inputs == [b EXCEPT !.places = {p \in b.places : p[1] = "input"}]
  IN /\ Grant(name, IF Valid(name, b) THEN b.places
                    ELSE IF Valid(name, inputs) THEN inputs.places ELSE {}, b.handler)
     /\ call' = [op |-> "attach", refused |-> ~Valid(name, b)]
Attach(name, b) ==
  /\ Grant(name, IF Valid(name, b) THEN b.places ELSE {}, b.handler)
  /\ call' = [op |-> "attach", refused |-> ~Valid(name, b)]

\* Detach looks for the name among the owners, the empty name included.
Holdings(name) == {p \in Place : owners[p] = name}
Detach_KeepsHandlers(name) ==
  /\ owners' = At(owners, Holdings(name), Nobody)
  /\ granted' = At(granted, Holdings(name), NoHandler)
  /\ direct' = direct \ Holdings(name)
  /\ call' = [op |-> "detach", refused |-> Holdings(name) = {}]
  /\ UNCHANGED callbacks
Detach(name) ==
  /\ call' = [op |-> "detach", refused |-> Holdings(name) = {}]
  /\ Grant(Nobody, Holdings(name), NoHandler)

\* OnInput and OnOutput; a nil handler removes the one that is there.
On(p, h) ==
  /\ callbacks' = [callbacks EXCEPT ![p] = h]
  /\ direct' = direct \cup {p}
  /\ call' = [op |-> "on", refused |-> FALSE]
  /\ UNCHANGED <<owners, granted>>

\* Terminal.AttachPorts: both places at once.
AttachPorts(h, in, out) ==
  LET places == {<<"input", in>>, <<"output", out>>}
  IN /\ callbacks' = At(callbacks, places, h)
     /\ direct' = direct \cup places
     /\ call' = [op |-> "terminal", refused |-> FALSE]
     /\ UNCHANGED <<owners, granted>>

Next ==
  \/ \E name \in Name \cup {Nobody}, b \in Binding : Attach(name, b)
  \/ \E name \in Name \cup {Nobody} : Detach(name)
  \/ \E p \in Place, h \in Handler \cup {NoHandler} : On(p, h)
  \/ \E h \in Handler, in, out \in Port : AttachPorts(h, in, out)

Spec == Init /\ [][Next]_busVars

---------------------------------------------------------------------------

\* Types; and exactly the owned places have a handler granted, so that no binding is
\* accepted under the empty name (peripheral.go:63-65).
TypeOK ==
  /\ owners \in [Place -> Name \cup {Nobody}]
  /\ callbacks \in [Place -> Handler \cup {NoHandler}]
  /\ granted \in [Place -> Handler \cup {NoHandler}]
  /\ direct \subseteq Place
  /\ \A p \in Place : owners[p] = Nobody <=> granted[p] = NoHandler

\* Owners and handlers agree: a place nobody wrote directly has the handler its owner
\* attached, or none if it has no owner; so a detached peripheral is never called
\* again (peripheral.go:61-137).
OwnersMatchHandlers == \A p \in Place \ direct : callbacks[p] = granted[p]

\* A refused attach leaves the bus as it was, also when only its last output
\* conflicts (peripheral.go:61-112).
AttachAllOrNothing ==
  [][call'.op = "attach" /\ call'.refused => UNCHANGED <<owners, callbacks>>]_busVars

\* Attaching never takes a place from another peripheral, nor from a handler
\* installed directly (peripheral.go:81-100, 163-181).
AttachTakesOnlyFree ==
  [][call'.op = "attach" =>
       \A p \in Place : callbacks[p] # NoHandler \/ owners[p] # Nobody =>
         callbacks'[p] = callbacks[p] /\ owners'[p] = owners[p]]_busVars

\* The comment on Detach: it frees the ports the peripheral owns, so it changes no
\* port without an owner (peripheral.go:114).
DetachOnlyOwned ==
  [][call'.op = "detach" =>
       \A p \in Place : owners[p] = Nobody => callbacks'[p] = callbacks[p]]_busVars
===========================================================================
