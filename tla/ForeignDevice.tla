---------------------------- MODULE ForeignDevice ----------------------------
(* The client as a foreign device (client/bbmd.go) and its BVLC management      *)
(* operations (client/bvlc_mgmt.go), against the BBMDs of Bbmd.  A BVLC-Result  *)
(* names neither the request nor the attempt it answers: a management           *)
(* operation in flight takes any Result of its BBMD, and only then is it a      *)
(* registration's.                                                              *)
EXTENDS Bbmd

CONSTANTS
  ApduTimeout,   \* ticks an attempt or an operation waits for its answer
  MaxOps         \* management operations of a device

(* The answer to an attempt given up on never reaches the next one: the code   *)
(* has no means to tell them apart.  Configurations have apduTimeout < ttl/2.  *)
ASSUME TimingAssumption ==
  /\ TTL \in Nat /\ Grace \in Nat /\ TTL >= 2
  /\ RoundTrip \in Nat /\ ApduTimeout \in Nat
  /\ RoundTrip < ApduTimeout
  /\ ApduTimeout + RoundTrip < TTL \div 2 + Grace

VARIABLES
  loop,     \* fdLoop of each device: registering, waiting, stopped
  timer,    \* ticks left of its timer
  fdAnswer,   \* the attempt's channel: a Result code, or None
  reg,      \* fdState.reg
  op,       \* the management operation in flight, or None
  opTimer,
  opAnswer, \* its channel
  ops       \* operations begun

fdVars == <<loop, timer, fdAnswer, reg, op, opTimer, opAnswer, ops>>

meshVars == <<bbmdVars, fdVars>>

MeshInit ==
  /\ BbmdInit
  /\ loop = [f \in Foreign |-> "begin"]
  /\ timer = [f \in Foreign |-> 0]
  /\ fdAnswer = [f \in Foreign |-> None]
  /\ reg = [f \in Foreign |-> FALSE]
  /\ op = [f \in Foreign |-> None]
  /\ opTimer = [f \in Foreign |-> 0]
  /\ opAnswer = [f \in Foreign |-> None]
  /\ ops = [f \in Foreign |-> 0]

opVars == <<op, opTimer, opAnswer, ops>>
castVars == <<bdt, npdus, cast, got, whole>>

-----------------------------------------------------------------------------
(* registerFD: begin the attempt and send the request.                         *)
BeginAttempt(f) ==
  /\ loop[f] = "begin"
  /\ loop' = [loop EXCEPT ![f] = "await"]
  /\ timer' = [timer EXCEPT ![f] = ApduTimeout]
  /\ fdAnswer' = [fdAnswer EXCEPT ![f] = None]
  /\ ctl' = ctl \union {[fn |-> "register", from |-> f, to |-> Home[f], life |-> RoundTrip]}
  /\ UNCHANGED <<fdt, stayed, deleted, reg, opVars, castVars>>

(* The mutated form: a failed attempt leaves reg as it was. *)
attemptKeepsReg(f, ok) ==
  /\ reg' = [reg EXCEPT ![f] = @ \/ ok]
  /\ timer' = [timer EXCEPT ![f] = IF ok THEN TTL \div 2 ELSE TTL]

(* A failed attempt clears reg and waits a whole TTL; a successful one sets it *)
(* and waits half of one.                                                      *)
attemptEnds(f, ok) ==
  /\ reg' = [reg EXCEPT ![f] = ok]
  /\ timer' = [timer EXCEPT ![f] = IF ok THEN TTL \div 2 ELSE TTL]

(* One of the attempt's timer and its channel; either may win when both are    *)
(* ready.                                                                      *)
EndAttempt(f) ==
  /\ loop[f] = "await"
  /\ \/ fdAnswer[f] # None /\ attemptEnds(f, fdAnswer[f] = "ok")
     \/ timer[f] = 0 /\ attemptEnds(f, FALSE)
  /\ loop' = [loop EXCEPT ![f] = "wait"]
  /\ fdAnswer' = [fdAnswer EXCEPT ![f] = None]
  /\ UNCHANGED <<bbmdVars, opVars>>

Renew(f) ==
  /\ loop[f] = "wait"
  /\ timer[f] = 0
  /\ loop' = [loop EXCEPT ![f] = "begin"]
  /\ UNCHANGED <<bbmdVars, timer, fdAnswer, reg, opVars>>

(* Close ends the loop: an attempt under way fails, a wait just ends.          *)
Stop(f) ==
  /\ loop[f] \in {"await", "wait"}
  /\ reg' = [reg EXCEPT ![f] = @ /\ loop[f] = "wait"]
  /\ loop' = [loop EXCEPT ![f] = "stopped"]
  /\ fdAnswer' = [fdAnswer EXCEPT ![f] = None]
  /\ op' = [op EXCEPT ![f] = None]
  /\ opAnswer' = [opAnswer EXCEPT ![f] = None]
  /\ UNCHANGED <<bbmdVars, timer, opTimer, ops>>

-----------------------------------------------------------------------------
(* bvlcExchange: one operation at a time, to the device's BBMD.                *)
Exchange(f, kind) ==
  /\ loop[f] # "stopped"
  /\ op[f] = None
  /\ ops[f] < MaxOps
  /\ ops' = [ops EXCEPT ![f] = @ + 1]
  /\ op' = [op EXCEPT ![f] = kind]
  /\ opTimer' = [opTimer EXCEPT ![f] = ApduTimeout]
  /\ opAnswer' = [opAnswer EXCEPT ![f] = None]
  /\ \/ kind = "read"
        /\ ctl' = ctl \union {[fn |-> "read", from |-> f, to |-> Home[f], life |-> RoundTrip]}
     \/ kind = "delete"
        /\ \E e \in Foreign :
             ctl' = ctl \union {[fn |-> "delete", from |-> f, to |-> Home[f], entry |-> e,
                                 life |-> RoundTrip]}
  /\ UNCHANGED <<fdt, stayed, deleted, loop, timer, fdAnswer, reg, castVars>>

EndExchange(f) ==
  /\ op[f] # None
  /\ opAnswer[f] # None \/ opTimer[f] = 0
  /\ op' = [op EXCEPT ![f] = None]
  /\ opAnswer' = [opAnswer EXCEPT ![f] = None]
  /\ UNCHANGED <<bbmdVars, loop, timer, fdAnswer, reg, opTimer, ops>>

(* bvlcOps.deliver: the operation takes the ACK it wants and any Result.       *)
opTakes(f, m) == op[f] # None /\ (m.fn = "result" \/ op[f] = "read")

(* fdState.handleResult: a Result is the attempt's, if one is under way; its   *)
(* channel holds one answer and drops the rest.                                *)
handleResult(f, m) ==
  fdAnswer' = IF m.fn = "result" /\ loop[f] = "await" /\ fdAnswer[f] = None
              THEN [fdAnswer EXCEPT ![f] = m.code] ELSE fdAnswer

(* handleBVLCManagement: the operation first, then the registration attempt.   *)
handleBVLCManagement(m) ==
  /\ m \in ctl
  /\ m.to \in Foreign
  /\ ctl' = ctl \ {m}
  /\ LET f == m.to IN
     IF opTakes(f, m)
     THEN /\ opAnswer' = [opAnswer EXCEPT ![f] = IF @ = None THEN m.fn ELSE @]
          /\ UNCHANGED fdAnswer
     ELSE handleResult(f, m) /\ UNCHANGED opAnswer
  /\ UNCHANGED <<fdt, stayed, deleted, loop, timer, reg, op, opTimer, ops, castVars>>

-----------------------------------------------------------------------------
(* sendNPDU of a broadcast: through the BBMD when registered, else on the      *)
(* device's own subnet, where nobody of the mesh is.                           *)
ForeignBroadcast(f, confirmed) ==
  /\ loop[f] # "stopped"
  /\ Begin(f, confirmed,
           IF reg[f] THEN SetToBag({Frame("distribute", f, Home[f], f)}) ELSE EmptyBag)
  /\ UNCHANGED <<ctl, fdVars>>

(* Time passes when no device has a step that is due.                          *)
dec(t) == [f \in Foreign |-> IF t[f] = 0 THEN 0 ELSE t[f] - 1]

Due(f) ==
  \/ loop[f] = "begin"
  \/ loop[f] = "await" /\ (fdAnswer[f] # None \/ timer[f] = 0)
  \/ loop[f] = "wait" /\ timer[f] = 0
  \/ op[f] # None /\ (opAnswer[f] # None \/ opTimer[f] = 0)

Tick ==
  /\ \A f \in Foreign : ~Due(f)
  /\ Age
  /\ timer' = dec(timer)
  /\ opTimer' = dec(opTimer)
  /\ UNCHANGED <<loop, fdAnswer, reg, op, opAnswer, ops>>

MeshNext ==
  \/ (\E h \in Hosts, c \in BOOLEAN : HostBroadcast(h, c)) /\ UNCHANGED fdVars
  \/ (\E b \in BBMDs : ServerBroadcast(b)) /\ UNCHANGED fdVars
  \/ \E f \in Foreign, c \in BOOLEAN : ForeignBroadcast(f, c)
  \/ (\E m \in BagToSet(npdus) : Deliver(m)) /\ UNCHANGED fdVars
  \/ (\E m \in BagToSet(npdus) : Lose(m)) /\ UNCHANGED fdVars
  \/ Settle /\ UNCHANGED fdVars
  \/ (\E m \in ctl : Manage(m)) /\ UNCHANGED fdVars
  \/ \E m \in ctl : handleBVLCManagement(m)
  \/ \E f \in Foreign : BeginAttempt(f) \/ EndAttempt(f) \/ Renew(f) \/ Stop(f)
  \/ \E f \in Foreign, k \in {"read", "delete"} : Exchange(f, k)
  \/ \E f \in Foreign : EndExchange(f)
  \/ Tick

MeshSpec == MeshInit /\ [][MeshNext]_meshVars

-----------------------------------------------------------------------------
(* A running device that believes itself registered has an entry in its BBMD's *)
(* table, unless since it was last entered that entry was deleted, or it       *)
(* deleted another's itself: the Result of that deletion may be taken for the  *)
(* registration's.  Results swallowed by a management operation, those of a    *)
(* table read or a failed deletion, NAKs of a distribution, and lost requests  *)
(* and answers may make it believe too little, never too much, as long as      *)
(* answers come within the APDU timeout.                                       *)
RegisteredIsKnown ==
  \A f \in Foreign :
    reg[f] /\ loop[f] # "stopped" /\ f \notin deleted => Registered(Home[f], f)
=============================================================================
