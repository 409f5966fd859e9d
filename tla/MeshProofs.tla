----------------------------- MODULE MeshProofs ------------------------------
(* What holds of a mesh of BBMDs and foreign devices, for any number of them and *)
(* any tables: a foreign device that believes itself registered is, and a       *)
(* broadcast reaches every node once.                                           *)
EXTENDS ForeignDevice, TLAPS

(***************************************************************************)
(* Registrations.                                                          *)
(*                                                                         *)
(* An entry of a BBMD's table has at least as long left as its device can  *)
(* go on believing in it: the time left is bounded from below at each      *)
(* stage of the loop, by the device's timer and by the life of an answer   *)
(* in flight.                                                              *)
(***************************************************************************)
\* The shape of the foreign devices' state and of the BBMDs' tables.
DeviceTypes ==
  /\ fdt \in [BBMDs -> [Foreign -> Nat]]
  /\ loop \in [Foreign -> {"begin", "await", "wait", "stopped"}]
  /\ timer \in [Foreign -> Nat]
  /\ reg \in [Foreign -> BOOLEAN]
  /\ DOMAIN fdAnswer = Foreign

\* The management frames in flight, as far as a registration depends on them.
ManagementFrames ==
  \A m \in ctl :
    /\ m.life \in 0 .. RoundTrip /\ "life" \in DOMAIN m
    /\ m.fn = "register" => m.from \in Foreign /\ m.to = Home[m.from]
    /\ m.fn = "delete" => m.from \in Foreign /\ m.entry \in Foreign

\* The least an entry has left when a success of its device is answered, however late.
AtAnswer == TTL + Grace - RoundTrip

\* What the entry of a device has left at least, as long as nothing was deleted.
Secured(f) ==
  /\ reg[f] /\ loop[f] = "wait" => timer[f] <= TTL \div 2
  /\ reg[f] /\ loop[f] = "await" => timer[f] <= ApduTimeout
  /\ f \notin deleted =>
       /\ \A m \in ctl : m.fn = "result" /\ m.to = f /\ m.code = "ok"
                           => fdt[Home[f]][f] >= AtAnswer + m.life
       /\ loop[f] = "await" /\ fdAnswer[f] # None /\ fdAnswer[f] = "ok"
            => fdt[Home[f]][f] >= AtAnswer
       /\ reg[f] /\ loop[f] = "wait"
            => fdt[Home[f]][f] >= AtAnswer - (TTL \div 2) + timer[f]
       /\ reg[f] /\ loop[f] = "begin"
            => fdt[Home[f]][f] >= AtAnswer - (TTL \div 2)
       /\ reg[f] /\ loop[f] = "await"
            => fdt[Home[f]][f] >= AtAnswer - (TTL \div 2) - ApduTimeout + timer[f]

\* The inductive invariant of the registrations.
RegInv == DeviceTypes /\ ManagementFrames /\ \A f \in Foreign : Secured(f)

\* Half a lifetime, in whole ticks.
LEMMA Half == TTL \div 2 \in Nat /\ 2 * (TTL \div 2) <= TTL
BY TimingAssumption

\* The invariant implies the property the run checks.
LEMMA RegParts == RegInv => RegisteredIsKnown
<1> SUFFICES ASSUME RegInv, NEW f \in Foreign, reg[f], loop[f] # "stopped", f \notin deleted
             PROVE  fdt[Home[f]][f] > 0
  BY Zenon DEF RegisteredIsKnown, Registered
<1>1. Secured(f) /\ Home[f] \in BBMDs /\ DeviceTypes
  BY Zenon, MeshAssumption DEF RegInv
<1>2. fdt[Home[f]][f] \in Nat /\ timer[f] \in Nat /\ loop[f] \in {"begin", "await", "wait", "stopped"}
  BY Zenon, <1>1 DEF DeviceTypes
<1> PICK e \in Nat : e = fdt[Home[f]][f] BY Zenon, <1>2
<1> PICK t \in Nat : t = timer[f] BY Zenon, <1>2
<1>3. \/ t <= TTL \div 2 /\ e >= AtAnswer - (TTL \div 2) + t
      \/ e >= AtAnswer - (TTL \div 2)
      \/ e >= AtAnswer - (TTL \div 2) - ApduTimeout + t
  BY Zenon, <1>1, <1>2 DEF Secured
<1>4. e > 0
  BY <1>3, Half, TimingAssumption DEF AtAnswer
<1> QED BY Zenon, <1>4

\* At the start.
LEMMA RegStart == MeshInit => RegInv
BY DEF MeshInit, BbmdInit, RegInv, DeviceTypes, ManagementFrames, Secured

\* What leaves a device's state, its entry and the frames to it alone keeps its part.
LEMMA RegSame ==
  ASSUME RegInv, UNCHANGED <<fdt, deleted, loop, timer, reg, fdAnswer>>,
         \A m \in ctl' : m \in ctl \/ (/\ m.life \in 0 .. RoundTrip /\ "life" \in DOMAIN m
                                       /\ m.fn = "register" => m.from \in Foreign /\ m.to = Home[m.from]
                                       /\ m.fn = "delete" => m.from \in Foreign /\ m.entry \in Foreign
                                       /\ ~(m.fn = "result" /\ m.code = "ok"))
  PROVE  RegInv'
BY Zenon DEF RegInv, DeviceTypes, ManagementFrames, Secured

\* Frames of the broadcast never carry a success.
LEMMA CastKeeps ==
  ASSUME RegInv, UNCHANGED fdVars, NEW m, Deliver(m)
  PROVE  RegInv'
<1>1. /\ UNCHANGED <<fdt, deleted, loop, timer, reg, fdAnswer>>
      /\ ctl' = ctl \/ ctl' = ctl \union {Result(m.to, m.from, "nak", RoundTrip)} \/ ctl' = ctl \union {}
  BY Zenon DEF Deliver, fdVars
<1>2. RoundTrip \in 0 .. RoundTrip BY TimingAssumption
<1>3. \A x : x = Result(m.to, m.from, "nak", RoundTrip) =>
        x.fn = "result" /\ x.code = "nak" /\ x.life = RoundTrip /\ "life" \in DOMAIN x
  BY DEF Result
<1>4. "result" # "register" /\ "result" # "delete" /\ "nak" # "ok" OBVIOUS
<1>5. \A x \in ctl' : x \in ctl \/ x = Result(m.to, m.from, "nak", RoundTrip)
  BY Zenon, <1>1
<1>6. \A x \in ctl' : x \in ctl \/ (/\ x.life \in 0 .. RoundTrip /\ "life" \in DOMAIN x
                                    /\ x.fn = "register" => x.from \in Foreign /\ x.to = Home[x.from]
                                    /\ x.fn = "delete" => x.from \in Foreign /\ x.entry \in Foreign
                                    /\ ~(x.fn = "result" /\ x.code = "ok"))
  BY Zenon, <1>2, <1>3, <1>4, <1>5
<1> QED BY Zenon, <1>1, <1>6, RegSame

\* Sending a request: registerFD's, or an operation's.
LEMMA SentKeeps ==
  ASSUME RegInv, NEW x, ctl' = ctl \union {x}, UNCHANGED <<fdt, deleted, loop, timer, reg, fdAnswer>>,
         x.life = RoundTrip, "life" \in DOMAIN x, x.fn \in {"read", "delete"},
         x.fn = "delete" => x.from \in Foreign /\ x.entry \in Foreign
  PROVE  RegInv'
<1>2. RoundTrip \in 0 .. RoundTrip BY TimingAssumption
<1>4. x.fn # "register" /\ x.fn # "result" OBVIOUS
<1> QED BY Zenon, <1>2, <1>4, RegSame

\* A management operation begins (bvlcExchange): its request is no registration.
LEMMA ExchangeKeeps ==
  ASSUME RegInv, NEW f \in Foreign, NEW kind \in {"read", "delete"}, Exchange(f, kind)
  PROVE  RegInv'
<1>1. UNCHANGED <<fdt, deleted, loop, timer, reg, fdAnswer>> BY Zenon DEF Exchange
<1>2. CASE ctl' = ctl \union {[fn |-> "read", from |-> f, to |-> Home[f], life |-> RoundTrip]}
  <2> PICK x : x = [fn |-> "read", from |-> f, to |-> Home[f], life |-> RoundTrip] BY Zenon
  <2>1. x.life = RoundTrip /\ "life" \in DOMAIN x /\ x.fn = "read" OBVIOUS
  <2>2. ctl' = ctl \union {x} BY Zenon, <1>2
  <2>3. x.fn \in {"read", "delete"} /\ x.fn # "delete" BY <2>1
  <2> QED BY Zenon, <1>1, <2>1, <2>2, <2>3, SentKeeps
<1>3. CASE \E e \in Foreign :
             ctl' = ctl \union {[fn |-> "delete", from |-> f, to |-> Home[f], entry |-> e, life |-> RoundTrip]}
  <2> PICK e \in Foreign :
             ctl' = ctl \union {[fn |-> "delete", from |-> f, to |-> Home[f], entry |-> e, life |-> RoundTrip]}
    BY Zenon, <1>3
  <2> PICK x : x = [fn |-> "delete", from |-> f, to |-> Home[f], entry |-> e, life |-> RoundTrip] BY Zenon
  <2>1. x.life = RoundTrip /\ "life" \in DOMAIN x /\ x.fn = "delete" /\ x.from = f /\ x.entry = e OBVIOUS
  <2>2. ctl' = ctl \union {x} OBVIOUS
  <2>3. x.fn \in {"read", "delete"} BY <2>1
  <2> QED BY Zenon, <1>1, <2>1, <2>2, <2>3, SentKeeps
<1> QED BY Zenon, <1>2, <1>3 DEF Exchange

\* An attempt begins (registerFD).
LEMMA BeginAttemptKeeps ==
  ASSUME RegInv, NEW f \in Foreign, BeginAttempt(f)
  PROVE  RegInv'
<1> PICK x : x = [fn |-> "register", from |-> f, to |-> Home[f], life |-> RoundTrip] BY Zenon
<1>1. x.life = RoundTrip /\ "life" \in DOMAIN x /\ x.fn = "register" /\ x.from = f /\ x.to = Home[f] OBVIOUS
<1>2. /\ ctl' = ctl \union {x} /\ UNCHANGED <<fdt, deleted, reg>> /\ loop[f] = "begin"
      /\ loop' = [loop EXCEPT ![f] = "await"] /\ timer' = [timer EXCEPT ![f] = ApduTimeout]
      /\ fdAnswer' = [fdAnswer EXCEPT ![f] = None]
  BY Zenon DEF BeginAttempt
<1>3. DeviceTypes'
  BY <1>2, TimingAssumption DEF RegInv, DeviceTypes
<1>4. ManagementFrames'
  BY <1>1, <1>2, TimingAssumption DEF RegInv, ManagementFrames
<1>5. ASSUME NEW g \in Foreign, g # f PROVE Secured(g)'
  <2>1. Secured(g) /\ loop'[g] = loop[g] /\ timer'[g] = timer[g] /\ fdAnswer'[g] = fdAnswer[g]
    BY Zenon, <1>2, <1>5 DEF RegInv, DeviceTypes
  <2>2. \A m \in ctl' : m.fn = "result" => m \in ctl BY <1>1, <1>2
  <2> QED BY Zenon, <2>1, <2>2, <1>2 DEF Secured
<1>6. Secured(f)'
  <2>1. Secured(f) /\ loop'[f] = "await" /\ timer'[f] = ApduTimeout /\ fdAnswer'[f] = None
    BY Zenon, <1>2 DEF RegInv, DeviceTypes
  <2>2. \A m \in ctl' : m.fn = "result" => m \in ctl BY <1>1, <1>2
  <2>4. AtAnswer - (TTL \div 2) - ApduTimeout + ApduTimeout = AtAnswer - (TTL \div 2)
        /\ ApduTimeout <= ApduTimeout
    BY Half, TimingAssumption DEF AtAnswer
  <2>5. "begin" # "await" /\ "await" # "wait" OBVIOUS
  <2> QED BY Zenon, <2>1, <2>2, <2>4, <2>5, <1>2 DEF Secured
<1> QED BY Zenon, <1>3, <1>4, <1>5, <1>6 DEF RegInv

\* An attempt ends: with the answer in its channel, or with its timer.
LEMMA EndAttemptKeeps ==
  ASSUME RegInv, NEW f \in Foreign, EndAttempt(f)
  PROVE  RegInv'
<1>1. /\ UNCHANGED <<ctl, fdt, deleted>> /\ loop[f] = "await"
      /\ loop' = [loop EXCEPT ![f] = "wait"]
      /\ fdAnswer' = [fdAnswer EXCEPT ![f] = None]
  BY Zenon DEF EndAttempt, bbmdVars
<1> PICK ok \in BOOLEAN :
      /\ reg' = [reg EXCEPT ![f] = ok]
      /\ timer' = [timer EXCEPT ![f] = IF ok THEN TTL \div 2 ELSE TTL]
      /\ ok => fdAnswer[f] # None /\ fdAnswer[f] = "ok"
  BY Zenon DEF EndAttempt, attemptEnds
<1>3. DeviceTypes'
  BY <1>1, TimingAssumption, Half DEF RegInv, DeviceTypes
<1>4. ManagementFrames'
  BY Zenon, <1>1 DEF RegInv, ManagementFrames
<1>5. ASSUME NEW g \in Foreign, g # f PROVE Secured(g)'
  <2>1. Secured(g) /\ loop'[g] = loop[g] /\ timer'[g] = timer[g] /\ fdAnswer'[g] = fdAnswer[g] /\ reg'[g] = reg[g]
    BY Zenon, <1>1, <1>5 DEF RegInv, DeviceTypes
  <2> QED BY Zenon, <2>1, <1>1 DEF Secured
<1>6. Secured(f)'
  <2>1. Secured(f) /\ loop'[f] = "wait" /\ reg'[f] = ok /\ (ok => timer'[f] = TTL \div 2)
    BY Zenon, <1>1 DEF RegInv, DeviceTypes
  <2>4. AtAnswer - (TTL \div 2) + (TTL \div 2) = AtAnswer /\ TTL \div 2 <= TTL \div 2
    BY Half, TimingAssumption DEF AtAnswer
  <2>5. "wait" # "await" /\ "wait" # "begin" OBVIOUS
  <2> QED BY Zenon, <2>1, <2>4, <2>5, <1>1 DEF Secured
<1> QED BY Zenon, <1>3, <1>4, <1>5, <1>6 DEF RegInv

\* The wait is over: half a lifetime after a success, so that the entry outlives the next attempt.
LEMMA RenewKeeps ==
  ASSUME RegInv, NEW f \in Foreign, Renew(f)
  PROVE  RegInv'
<1>1. /\ UNCHANGED <<ctl, fdt, deleted, timer, fdAnswer, reg>> /\ loop[f] = "wait" /\ timer[f] = 0
      /\ loop' = [loop EXCEPT ![f] = "begin"]
  BY Zenon DEF Renew, bbmdVars
<1>3. DeviceTypes'
  BY <1>1 DEF RegInv, DeviceTypes
<1>4. ManagementFrames'
  BY Zenon, <1>1 DEF RegInv, ManagementFrames
<1>5. ASSUME NEW g \in Foreign PROVE Secured(g)'
  <2>1. Secured(g) /\ (g # f => loop'[g] = loop[g]) /\ loop'[f] = "begin"
    BY Zenon, <1>1, <1>5 DEF RegInv, DeviceTypes
  <2>4. AtAnswer - (TTL \div 2) + 0 = AtAnswer - (TTL \div 2)
    BY Half, TimingAssumption DEF AtAnswer
  <2>5. "wait" # "await" /\ "wait" # "begin" /\ "begin" # "await" OBVIOUS
  <2> QED BY Zenon, <2>1, <2>4, <2>5, <1>1 DEF Secured
<1> QED BY Zenon, <1>3, <1>4, <1>5 DEF RegInv

\* Close ends the loop.
LEMMA StopKeeps ==
  ASSUME RegInv, NEW f \in Foreign, Stop(f)
  PROVE  RegInv'
<1>1. /\ UNCHANGED <<ctl, fdt, deleted, timer>>
      /\ loop' = [loop EXCEPT ![f] = "stopped"]
      /\ fdAnswer' = [fdAnswer EXCEPT ![f] = None]
      /\ reg' = [reg EXCEPT ![f] = @ /\ loop[f] = "wait"]
  BY Zenon DEF Stop, bbmdVars
<1>3. DeviceTypes'
  <2>1. (reg[f] /\ loop[f] = "wait") \in BOOLEAN OBVIOUS
  <2> QED BY Zenon, <1>1, <2>1 DEF RegInv, DeviceTypes
<1>4. ManagementFrames'
  BY Zenon, <1>1 DEF RegInv, ManagementFrames
<1>5. ASSUME NEW g \in Foreign PROVE Secured(g)'
  <2>1. /\ Secured(g) /\ loop'[f] = "stopped"
        /\ g # f => loop'[g] = loop[g] /\ reg'[g] = reg[g] /\ fdAnswer'[g] = fdAnswer[g]
    BY Zenon, <1>1, <1>5 DEF RegInv, DeviceTypes
  <2>5. "stopped" # "await" /\ "stopped" # "begin" /\ "stopped" # "wait" OBVIOUS
  <2> QED BY Zenon, <2>1, <2>5, <1>1 DEF Secured
<1> QED BY Zenon, <1>3, <1>4, <1>5 DEF RegInv

\* handleBVLCManagement: a success the attempt takes finds the entry as it found it on its way.
LEMMA AnswerKeeps ==
  ASSUME RegInv, NEW m \in ctl, handleBVLCManagement(m)
  PROVE  RegInv'
<1> PICK f : f = m.to OBVIOUS
<1>1. /\ f \in Foreign /\ ctl' \subseteq ctl /\ UNCHANGED <<fdt, deleted, loop, timer, reg>>
      /\ \/ fdAnswer' = fdAnswer
         \/ m.fn = "result" /\ fdAnswer' = [fdAnswer EXCEPT ![f] = m.code]
  BY Zenon DEF handleBVLCManagement, handleResult
<1>3. DeviceTypes'
  BY Zenon, <1>1 DEF RegInv, DeviceTypes
<1>4. ManagementFrames'
  BY Zenon, <1>1 DEF RegInv, ManagementFrames
<1>5. ASSUME NEW g \in Foreign PROVE Secured(g)'
  <2>1. Secured(g) /\ (fdAnswer'[g] = fdAnswer[g] \/ (g = f /\ m.fn = "result" /\ fdAnswer'[g] = m.code))
    BY Zenon, <1>1, <1>5 DEF RegInv, DeviceTypes
  <2>2. ASSUME g \notin deleted, m.fn = "result", m.to = g, m.code = "ok"
        PROVE  fdt[Home[g]][g] >= AtAnswer
    <3>1. fdt[Home[g]][g] >= AtAnswer + m.life BY Zenon, <2>1, <2>2 DEF Secured
    <3>2. fdt[Home[g]][g] \in Nat BY MeshAssumption DEF RegInv, DeviceTypes
    <3>3. m.life \in 0 .. RoundTrip BY Zenon DEF RegInv, ManagementFrames
    <3> QED BY <3>1, <3>2, <3>3, TimingAssumption DEF AtAnswer
  <2> QED BY Zenon, <2>1, <2>2, <1>1 DEF Secured
<1> QED BY Zenon, <1>3, <1>4, <1>5 DEF RegInv

\* Reading a table.
LEMMA ReadKeeps ==
  ASSUME RegInv, NEW m \in ctl, readTable(m.to, m), UNCHANGED fdVars
  PROVE  RegInv'
<1> PICK x : x = [fn |-> "ack", from |-> m.to, to |-> m.from, life |-> m.life] BY Zenon
<1>1. x.fn = "ack" /\ x.life = m.life /\ "life" \in DOMAIN x OBVIOUS
<1>2. UNCHANGED <<fdt, deleted, loop, timer, reg, fdAnswer>> /\ \A y \in ctl' : y \in ctl \/ y = x
  BY Zenon DEF readTable, fdVars
<1>3. m.life \in 0 .. RoundTrip BY Zenon DEF RegInv, ManagementFrames
<1>4. "ack" # "register" /\ "ack" # "result" /\ "ack" # "delete" OBVIOUS
<1> QED BY Zenon, <1>1, <1>2, <1>3, <1>4, RegSame

\* register: the entry is new, or as it was and the answer no success.
LEMMA RegisterKeeps ==
  ASSUME RegInv, NEW m \in ctl, m.to \in BBMDs, m.fn = "register", register(m.to, m), UNCHANGED fdVars
  PROVE  RegInv'
<1> PICK f : f = m.from OBVIOUS
<1> PICK b : b = m.to OBVIOUS
<1>1. f \in Foreign /\ b = Home[f] /\ b \in BBMDs /\ m.life \in 0 .. RoundTrip
  BY Zenon DEF RegInv, ManagementFrames
<1> PICK room \in BOOLEAN :
      /\ ctl' = (ctl \ {m}) \union {Result(b, f, IF room THEN "ok" ELSE "nak", m.life)}
      /\ fdt' = IF room THEN [fdt EXCEPT ![b][f] = TTL + Grace] ELSE fdt
      /\ deleted' = IF room THEN deleted \ {f} ELSE deleted
  BY Zenon DEF register
<1>0. UNCHANGED <<loop, timer, reg, fdAnswer>> BY Zenon DEF fdVars
<1> PICK x : x = Result(b, f, IF room THEN "ok" ELSE "nak", m.life) OBVIOUS
<1>2. x.fn = "result" /\ "life" \in DOMAIN x /\ x.to = f /\ x.life = m.life /\ x.code = (IF room THEN "ok" ELSE "nak")
  BY DEF Result
<1>3. \A y \in ctl' : y \in ctl \/ y = x BY Zenon
<1>4. CASE ~room
  <2>1. x.code = "nak" /\ "nak" # "ok" /\ "result" # "register" /\ "result" # "delete" BY <1>2, <1>4
  <2>2. UNCHANGED <<fdt, deleted>> BY Zenon, <1>4
  <2> QED BY Zenon, <1>0, <1>1, <1>2, <1>3, <2>1, <2>2, RegSame
<1>5. CASE room
  <2>1. fdt' = [fdt EXCEPT ![b][f] = TTL + Grace] /\ deleted' = deleted \ {f} BY Zenon, <1>5
  <2>2. TTL + Grace \in Nat BY TimingAssumption
  <2>3. DeviceTypes'
    BY <1>0, <1>1, <2>1, <2>2 DEF RegInv, DeviceTypes
  <2>4. ManagementFrames'
    <3>1. "result" # "register" /\ "result" # "delete" OBVIOUS
    <3> QED BY Zenon, <1>1, <1>2, <1>3, <3>1 DEF RegInv, ManagementFrames
  <2>5. ASSUME NEW g \in Foreign, g # f PROVE Secured(g)'
    <3>1. Secured(g) /\ (g \in deleted' <=> g \in deleted) BY Zenon, <2>1, <2>5 DEF RegInv
    <3>2. fdt'[Home[g]][g] = fdt[Home[g]][g]
      BY <1>1, <2>1, <2>5, MeshAssumption DEF RegInv, DeviceTypes
    <3>3. \A y \in ctl' : y.to = g => y \in ctl BY Zenon, <1>2, <1>3, <2>5
    <3> QED BY Zenon, <3>1, <3>2, <3>3, <1>0 DEF Secured
  <2>6. Secured(f)'
    <3>1. fdt'[Home[f]][f] = TTL + Grace
      BY <1>1, <2>1 DEF RegInv, DeviceTypes
    <3>2. timer[f] \in Nat BY Zenon, <1>1 DEF RegInv, DeviceTypes
    <3>3. \A y \in ctl' : y.life \in 0 .. RoundTrip BY Zenon, <2>4 DEF ManagementFrames
    <3>4. \A l \in 0 .. RoundTrip : TTL + Grace >= AtAnswer + l
      BY TimingAssumption DEF AtAnswer
    <3>5. TTL + Grace >= AtAnswer /\ TTL + Grace >= AtAnswer - (TTL \div 2)
      BY TimingAssumption, Half DEF AtAnswer
    <3>6. \A t \in Nat : /\ t <= TTL \div 2 => TTL + Grace >= AtAnswer - (TTL \div 2) + t
                         /\ t <= ApduTimeout => TTL + Grace >= AtAnswer - (TTL \div 2) - ApduTimeout + t
      BY TimingAssumption, Half DEF AtAnswer
    <3>7. /\ reg[f] /\ loop[f] = "wait" => timer[f] <= TTL \div 2
          /\ reg[f] /\ loop[f] = "await" => timer[f] <= ApduTimeout
      BY Zenon, <1>1 DEF RegInv, Secured
    <3> QED BY Zenon, <3>1, <3>2, <3>3, <3>4, <3>5, <3>6, <3>7, <1>0 DEF Secured
  <2> QED BY Zenon, <2>3, <2>4, <2>5, <2>6 DEF RegInv
<1> QED BY Zenon, <1>4, <1>5

\* delete: an entry that goes is one of a device that is marked, and so is the one that asked.
LEMMA DeleteKeeps ==
  ASSUME RegInv, NEW m \in ctl, m.to \in BBMDs, m.fn = "delete", delete(m.to, m), UNCHANGED fdVars
  PROVE  RegInv'
<1> PICK f : f = m.from OBVIOUS
<1> PICK e : e = m.entry OBVIOUS
<1> PICK b : b = m.to OBVIOUS
<1>1. f \in Foreign /\ e \in Foreign /\ b \in BBMDs /\ m.life \in 0 .. RoundTrip
  BY Zenon DEF RegInv, ManagementFrames
<1> PICK known \in BOOLEAN :
      /\ ctl' = (ctl \ {m}) \union {Result(b, f, IF known THEN "ok" ELSE "nak", m.life)}
      /\ fdt' = [fdt EXCEPT ![b][e] = 0]
      /\ deleted' = IF known THEN deleted \union {e, f} ELSE deleted
      /\ known <=> fdt[b][e] > 0
  BY Zenon DEF delete, Registered
<1>0. UNCHANGED <<loop, timer, reg, fdAnswer>> BY Zenon DEF fdVars
<1> PICK x : x = Result(b, f, IF known THEN "ok" ELSE "nak", m.life) OBVIOUS
<1>2. x.fn = "result" /\ "life" \in DOMAIN x /\ x.to = f /\ x.life = m.life /\ x.code = (IF known THEN "ok" ELSE "nak")
  BY DEF Result
<1>3. \A y \in ctl' : y \in ctl \/ y = x BY Zenon
<1>4. DeviceTypes'
  BY <1>0, <1>1 DEF RegInv, DeviceTypes
<1>5. ManagementFrames'
  <2>1. "result" # "register" /\ "result" # "delete" OBVIOUS
  <2> QED BY Zenon, <1>1, <1>2, <1>3, <2>1 DEF RegInv, ManagementFrames
<1>6. ASSUME NEW g \in Foreign PROVE Secured(g)'
  <2>1. Secured(g) /\ (g \notin deleted' => g \notin deleted) BY Zenon DEF RegInv
  <2>2. ASSUME g \notin deleted' PROVE fdt'[Home[g]][g] = fdt[Home[g]][g]
    <3>1. Home[g] \in BBMDs /\ fdt \in [BBMDs -> [Foreign -> Nat]]
      BY Zenon, MeshAssumption DEF RegInv, DeviceTypes
    <3>2. known => g # e BY Zenon, <2>2
    <3>3. ~known => fdt[b][e] = 0 BY <1>1, <3>1
    <3> QED BY <1>1, <3>1, <3>2, <3>3
  <2>3. ASSUME g \notin deleted', NEW y \in ctl', y.to = g, y.code = "ok" PROVE y \in ctl
    <3>1. CASE y = x
      <4>1. known BY <3>1, <2>3, <1>2
      <4> QED BY Zenon, <4>1, <3>1, <2>3, <1>2
    <3> QED BY Zenon, <3>1, <1>3
  <2> QED BY Zenon, <2>1, <2>2, <2>3, <1>0 DEF Secured
<1> QED BY Zenon, <1>4, <1>5, <1>6 DEF RegInv

\* A management frame reaches a BBMD.
LEMMA ManageKeeps ==
  ASSUME RegInv, NEW m \in ctl, Manage(m), UNCHANGED fdVars
  PROVE  RegInv'
BY Zenon, RegisterKeeps, DeleteKeeps, ReadKeeps DEF Manage

\* A frame a tick older.
LEMMA AgedFrame ==
  ASSUME NEW m, m.life \in 0 .. RoundTrip, m.life > 0, "life" \in DOMAIN m,
         NEW x, x = [m EXCEPT !.life = @ - 1]
  PROVE  /\ x.fn = m.fn /\ x.to = m.to /\ x.from = m.from /\ x.entry = m.entry /\ x.code = m.code
         /\ "life" \in DOMAIN x /\ x.life = m.life - 1 /\ x.life \in 0 .. RoundTrip
<1>1. /\ x.fn = m.fn /\ x.to = m.to /\ x.from = m.from /\ x.entry = m.entry /\ x.code = m.code
      /\ "life" \in DOMAIN x /\ x.life = m.life - 1
  OBVIOUS
<1>2. \A k \in 0 .. RoundTrip : k > 0 => k - 1 \in 0 .. RoundTrip BY TimingAssumption
<1> QED BY Zenon, <1>1, <1>2

\* Time passes: an entry and what depends on it grow older together.
LEMMA TickKeeps ==
  ASSUME RegInv, Tick
  PROVE  RegInv'
<1>1. /\ UNCHANGED <<deleted, loop, reg, fdAnswer>>
      /\ fdt' = [b \in BBMDs |-> [f \in Foreign |-> IF fdt[b][f] = 0 THEN 0 ELSE fdt[b][f] - 1]]
      /\ ctl' = {[m EXCEPT !.life = @ - 1] : m \in {x \in ctl : x.life > 0}}
      /\ timer' = [f \in Foreign |-> IF timer[f] = 0 THEN 0 ELSE timer[f] - 1]
      /\ \A f \in Foreign : ~Due(f)
  BY Zenon DEF Tick, Age, dec
<1>2. DeviceTypes /\ ManagementFrames BY Zenon DEF RegInv
<1>3. DeviceTypes'
  BY <1>1, <1>2 DEF DeviceTypes
<1>4. ASSUME NEW x \in ctl'
      PROVE  \E m \in ctl : /\ x.fn = m.fn /\ x.to = m.to /\ x.from = m.from /\ x.entry = m.entry /\ x.code = m.code
                            /\ "life" \in DOMAIN x /\ x.life = m.life - 1 /\ x.life \in 0 .. RoundTrip
                            /\ m.life \in 0 .. RoundTrip
  <2> PICK m \in ctl : m.life > 0 /\ x = [m EXCEPT !.life = @ - 1] BY Zenon, <1>1
  <2>1. m.life \in 0 .. RoundTrip /\ "life" \in DOMAIN m BY Zenon, <1>2 DEF ManagementFrames
  <2> QED BY Zenon, <2>1, AgedFrame
<1>5. ManagementFrames'
  BY Zenon, <1>2, <1>4 DEF ManagementFrames
<1>6. ASSUME NEW f \in Foreign PROVE Secured(f)'
  <2>1. Secured(f) /\ ~Due(f) BY Zenon, <1>1 DEF RegInv
  <2>2. Home[f] \in BBMDs /\ fdt[Home[f]][f] \in Nat /\ timer[f] \in Nat
    BY <1>2, MeshAssumption DEF DeviceTypes
  <2>3. /\ fdt'[Home[f]][f] = (IF fdt[Home[f]][f] = 0 THEN 0 ELSE fdt[Home[f]][f] - 1)
        /\ timer'[f] = (IF timer[f] = 0 THEN 0 ELSE timer[f] - 1)
    BY Zenon, <1>1, <2>2
  <2> PICK e \in Nat : e = fdt[Home[f]][f] BY Zenon, <2>2
  <2> PICK t \in Nat : t = timer[f] BY Zenon, <2>2
  <2> PICK d : d = fdt'[Home[f]][f] OBVIOUS
  <2> PICK u : u = timer'[f] OBVIOUS
  <2> PICK l : l = loop[f] OBVIOUS
  <2>4. d = (IF e = 0 THEN 0 ELSE e - 1) /\ u = (IF t = 0 THEN 0 ELSE t - 1) BY Zenon, <2>3
  <2>5. l # "begin" /\ (l \in {"await", "wait"} => t # 0) /\ (l = "await" => fdAnswer[f] = None)
    BY <2>1 DEF Due
  <2>6. /\ reg[f] /\ l = "wait" => t <= TTL \div 2
        /\ reg[f] /\ l = "await" => t <= ApduTimeout
        /\ f \notin deleted =>
           /\ \A m \in ctl : m.fn = "result" /\ m.to = f /\ m.code = "ok" => e >= AtAnswer + m.life
           /\ reg[f] /\ l = "wait" => e >= AtAnswer - (TTL \div 2) + t
           /\ reg[f] /\ l = "await" => e >= AtAnswer - (TTL \div 2) - ApduTimeout + t
    BY Zenon, <2>1 DEF Secured
  <2>7. ASSUME f \notin deleted, NEW x \in ctl', x.fn = "result", x.to = f, x.code = "ok"
        PROVE  d >= AtAnswer + x.life
    <3> PICK m \in ctl : /\ x.fn = m.fn /\ x.to = m.to /\ x.code = m.code
                         /\ x.life = m.life - 1 /\ x.life \in 0 .. RoundTrip /\ m.life \in 0 .. RoundTrip
      BY Zenon, <1>4
    <3>1. e >= AtAnswer + m.life BY Zenon, <2>6, <2>7
    <3> PICK k \in 0 .. RoundTrip : k = m.life OBVIOUS
    <3>2. x.life = k - 1 /\ k - 1 \in 0 .. RoundTrip /\ e >= AtAnswer + k BY Zenon, <3>1
    <3>3. d >= AtAnswer + (k - 1) BY <2>4, <3>2, TimingAssumption DEF AtAnswer
    <3> QED BY Zenon, <3>2, <3>3
  <2>8. /\ reg[f] /\ l = "wait" => u <= TTL \div 2
        /\ reg[f] /\ l = "await" => u <= ApduTimeout
    BY <2>4, <2>6, Half, TimingAssumption
  <2>9. ASSUME f \notin deleted, reg[f], l = "wait" PROVE d >= AtAnswer - (TTL \div 2) + u
    <3>1. e >= AtAnswer - (TTL \div 2) + t /\ t # 0 BY Zenon, <2>5, <2>6, <2>9
    <3>2. e > 0 BY <3>1, Half, TimingAssumption DEF AtAnswer
    <3> QED BY <2>4, <3>1, <3>2, Half, TimingAssumption DEF AtAnswer
  <2>10. ASSUME f \notin deleted, reg[f], l = "await"
         PROVE  d >= AtAnswer - (TTL \div 2) - ApduTimeout + u
    <3>1. e >= AtAnswer - (TTL \div 2) - ApduTimeout + t /\ t # 0 BY Zenon, <2>5, <2>6, <2>10
    <3>2. e > 0 BY <3>1, Half, TimingAssumption DEF AtAnswer
    <3> QED BY <2>4, <3>1, <3>2, Half, TimingAssumption DEF AtAnswer
  <2> QED BY Zenon, <1>1, <2>5, <2>7, <2>8, <2>9, <2>10 DEF Secured
<1> QED BY Zenon, <1>3, <1>5, <1>6 DEF RegInv

\* Every step keeps the invariant.
LEMMA RegStep == RegInv /\ [MeshNext]_meshVars => RegInv'
<1> SUFFICES ASSUME RegInv, [MeshNext]_meshVars PROVE RegInv'
  OBVIOUS
<1>1. CASE UNCHANGED <<ctl, fdt, deleted, loop, timer, reg, fdAnswer>>
  BY Zenon, <1>1, RegSame
<1>2. CASE UNCHANGED meshVars
  BY Zenon, <1>1, <1>2 DEF meshVars, bbmdVars, fdVars
<1>3. CASE \E h \in Hosts, c \in BOOLEAN : HostBroadcast(h, c) /\ UNCHANGED fdVars
  BY Zenon, <1>1, <1>3 DEF HostBroadcast, Begin, fdVars
<1>4. CASE \E b \in BBMDs : ServerBroadcast(b) /\ UNCHANGED fdVars
  BY Zenon, <1>1, <1>4 DEF ServerBroadcast, Begin, fdVars
<1>5. CASE \E f \in Foreign, c \in BOOLEAN : ForeignBroadcast(f, c)
  BY Zenon, <1>1, <1>5 DEF ForeignBroadcast, Begin, fdVars
<1>6. CASE UNCHANGED fdVars /\ (Settle \/ \E m \in BagToSet(npdus) : Lose(m))
  BY Zenon, <1>1, <1>6 DEF Settle, Lose, fdVars
<1>7. CASE \E f \in Foreign : EndExchange(f)
  BY Zenon, <1>1, <1>7 DEF EndExchange, bbmdVars
<1> QED
  BY Zenon, <1>2, <1>3, <1>4, <1>5, <1>6, <1>7, CastKeeps, ManageKeeps, AnswerKeeps, BeginAttemptKeeps,
     EndAttemptKeeps, RenewKeeps, StopKeeps, ExchangeKeeps, TickKeeps DEF MeshNext

\* A foreign device that believes itself registered (fdState.reg) has an entry in its BBMD's table,
\* whatever is lost, late or mistaken for another's answer, unless its entry was deleted or it
\* deleted one itself: for any number of BBMDs, devices, operations and places in the tables.
THEOREM RegistrationsAreKnown == MeshSpec => []RegisteredIsKnown
<1>1. MeshSpec => []RegInv
  BY RegStart, RegStep, PTL DEF MeshSpec
<1> QED BY <1>1, RegParts, PTL

(***************************************************************************)
(* That a broadcast reaches every node once.                               *)
(*                                                                         *)
(* A frame in flight leads to nodes: to the one that takes it and, at a    *)
(* BBMD, to those that the BBMD passes it on to.  The invariant: no node   *)
(* is led to by two frames, or by one after it took the broadcast, and     *)
(* never the sender; while nothing was lost, a node that has not taken the *)
(* broadcast is led to by a frame.                                         *)
(***************************************************************************)

\* The hosts of a BBMD's subnet.
Hosted(b) == {h \in Hosts : SubnetOf[h] = b}

\* The foreign devices of a BBMD.
Clients(b) == {f \in Foreign : Home[f] = b}

\* The BBMD of a node.
At(n) == IF n \in BBMDs THEN n ELSE IF n \in Hosts THEN SubnetOf[n] ELSE Home[n]

\* The nodes a frame leads to.
Leads(m) ==
  IF m.to \notin BBMDs THEN {n \in {m.to} : takes(n, m)}
  ELSE IF m.from = m.to \/ cast.confirmed THEN {}
  ELSE IF m.fn = "original" THEN Nodes \ Hosted(m.to)
  ELSE IF m.fn = "distribute" THEN Nodes \ {m.from}
  ELSE {m.to} \union Clients(m.to) \union {h \in Hosted(m.to) : oneHop(m.to)}

\* A frame of the broadcast followed.
FrameOf(m) ==
  /\ m.origin = cast.src /\ m.to \in Nodes
  /\ \/ /\ m.fn = "original" /\ m.from = cast.src /\ cast.src \notin Foreign
        /\ m.to \in Member(At(cast.src))
     \/ /\ m.fn = "distribute" /\ m.from = cast.src /\ cast.src \in Foreign
        /\ m.to = Home[cast.src]
     \/ /\ m.fn = "forwarded" /\ ~cast.confirmed /\ m.from \in BBMDs
        /\ m.to \in BBMDs /\ m.to # m.from => m.to # At(cast.src)

\* The shape of the broadcast's state; the devices that stayed are registered.
CastTypes ==
  /\ bdt \in Masks
  /\ npdus \in [DOMAIN npdus -> Nat \ {0}]
  /\ got \in [Nodes -> {0, 1}]
  /\ stayed \subseteq Foreign /\ \A f \in stayed : Registered(Home[f], f)

\* Nothing is in flight between two broadcasts.
Idle == cast = None => npdus = EmptyBag /\ got = [n \in Nodes |-> 0] /\ whole

\* The frames in flight lead to different nodes, that are still to take the broadcast.
Apart ==
  /\ \A m \in DOMAIN npdus :
       /\ FrameOf(m)
       /\ Leads(m) # {} => npdus[m] = 1
       /\ cast.src \notin Leads(m)
       /\ \A n \in Leads(m) : got[n] = 0
  /\ \A m, k \in DOMAIN npdus : m # k => Leads(m) \cap Leads(k) = {}

\* A confirmed request stays on its subnet.
Kept ==
  cast.confirmed =>
    /\ cast.src \notin BBMDs
    /\ \A n \in Nodes : got[n] # 0 => /\ n \in Hosts /\ cast.src \in Hosts
                                      /\ SubnetOf[n] = SubnetOf[cast.src]

\* The broadcast was accepted: a foreign device's BBMD knew it.
Taken ==
  cast.src \in Foreign =>
    cast.src \in stayed /\ (npdus # EmptyBag \/ \E n \in Nodes : got[n] # 0)

\* A node that took the broadcast, or that a frame leads to.
Led(n) == got[n] = 1 \/ \E m \in DOMAIN npdus : n \in Leads(m)

\* While nothing is lost, every node has taken the broadcast or is led to.
Everyone ==
  whole /\ ~cast.confirmed /\ Taken =>
    \A n \in (BBMDs \union Hosts \union stayed) \ {cast.src} : Led(n)

\* The inductive invariant of the broadcast.
CastInv ==
  /\ CastTypes
  /\ Idle
  /\ cast # None => /\ cast \in [src : Nodes, confirmed : BOOLEAN]
                    /\ got[cast.src] = 0
                    /\ Apart /\ Kept /\ Everyone

\* The nodes of the mesh are what they are.
LEMMA Parties ==
  /\ \A b \in BBMDs : b \in Nodes /\ b \notin Hosts /\ b \notin Foreign /\ At(b) = b
  /\ \A h \in Hosts : /\ h \in Nodes /\ h \notin BBMDs /\ h \notin Foreign
                      /\ At(h) = SubnetOf[h] /\ SubnetOf[h] \in BBMDs
  /\ \A f \in Foreign : /\ f \in Nodes /\ f \notin BBMDs /\ f \notin Hosts
                        /\ At(f) = Home[f] /\ Home[f] \in BBMDs
  /\ \A n \in Nodes : n \in BBMDs \/ n \in Hosts \/ n \in Foreign
<1>1. /\ \A n : ~(n \in BBMDs /\ n \in Hosts) /\ ~(n \in BBMDs /\ n \in Foreign)
                /\ ~(n \in Hosts /\ n \in Foreign)
      /\ \A h \in Hosts : SubnetOf[h] \in BBMDs
      /\ \A f \in Foreign : Home[f] \in BBMDs
  BY Zenon, MeshAssumption
<1> QED BY Zenon, <1>1 DEF Nodes, At

\* The BBMD of a node is a BBMD.
LEMMA AtBBMD == \A n \in Nodes : At(n) \in BBMDs
BY Zenon, Parties

\* The nodes of a subnet, and those of a BBMD.
LEMMA Subnets ==
  ASSUME NEW b \in BBMDs
  PROVE  \A n : /\ n \in Member(b) <=> n \in Nodes /\ n \notin Foreign /\ At(n) = b
                /\ n \in Hosted(b) <=> n \in Hosts /\ At(n) = b
                /\ n \in Clients(b) <=> n \in Foreign /\ At(n) = b
BY Zenon, Parties DEF Member, Hosted, Clients

\* The fields of a frame.
LEMMA FrameFields ==
  \A fn, from, to, origin :
    /\ Frame(fn, from, to, origin).fn = fn
    /\ Frame(fn, from, to, origin).from = from
    /\ Frame(fn, from, to, origin).to = to
    /\ Frame(fn, from, to, origin).origin = origin
BY DEF Frame

\* The frames that a BBMD sends at once go to different nodes.
Fan(S, b) ==
  /\ \A k \in S :
       /\ k.from = b /\ k.to \in Nodes
       /\ k.to \in Foreign \/ k.to \in BBMDs \ {b} => k.fn = "forwarded"
       /\ k.to \in Hosts => At(k.to) = b \/ ~oneHop(At(k.to))
  /\ \A k, l \in S : k.to = l.to => k = l

\* Where they lead.
LEMMA FanLeads ==
  ASSUME NEW b \in BBMDs, NEW S, Fan(S, b), ~cast.confirmed, NEW k \in S
  PROVE  /\ Leads(k) \subseteq Nodes
         /\ \A n \in Nodes :
              n \in Leads(k) <=>
                \/ n = k.to /\ n # b /\ (n \in Foreign => At(n) = b)
                \/ n # k.to /\ At(n) = k.to /\ k.to # b /\ (n \in Hosts => oneHop(At(n)))
<1>1. /\ k.from = b /\ k.to \in Nodes
      /\ k.to \in Foreign \/ k.to \in BBMDs \ {b} => k.fn = "forwarded"
  BY Zenon DEF Fan
<1>2. CASE k.to \in Hosts
  <2>1. Leads(k) = {k.to}
    BY Zenon, <1>2, Parties DEF Leads, takes
  <2> QED BY Zenon, <1>1, <1>2, <2>1, Parties, AtBBMD
<1>3. CASE k.to \in Foreign
  <2>1. \A n : n \in Leads(k) <=> n = k.to /\ Home[n] = b
    BY Zenon, <1>1, <1>3, Parties DEF Leads, takes
  <2>2. k.to \in Nodes /\ k.to # b /\ k.to \notin BBMDs /\ At(k.to) = Home[k.to]
    BY Zenon, <1>1, <1>3, Parties
  <2> QED BY Zenon, <1>3, <2>1, <2>2, AtBBMD
<1>4. CASE k.to = b
  <2>1. Leads(k) = {}
    BY Zenon, <1>1, <1>4 DEF Leads
  <2> QED BY Zenon, <1>4, <2>1
<1>5. CASE k.to \in BBMDs \ {b}
  <2>1. "forwarded" # "original" /\ "forwarded" # "distribute"
    OBVIOUS
  <2>2. Leads(k) = {k.to} \union Clients(k.to) \union {h \in Hosted(k.to) : oneHop(k.to)}
    BY Zenon, <1>1, <1>5, <2>1 DEF Leads
  <2>3. \A n : /\ n \in Hosted(k.to) <=> n \in Hosts /\ At(n) = k.to
               /\ n \in Clients(k.to) <=> n \in Foreign /\ At(n) = k.to
    BY Zenon, <1>5, Subnets
  <2>4. \A n : n \in Leads(k) <=> \/ n = k.to
                                  \/ n \in Foreign /\ At(n) = k.to
                                  \/ n \in Hosts /\ At(n) = k.to /\ oneHop(k.to)
    BY Zenon, <2>2, <2>3
  <2>5. Leads(k) \subseteq Nodes
    BY Zenon, <1>1, <2>4, Parties
  <2>6. ASSUME NEW n \in Nodes
        PROVE  n \in Leads(k) <=>
                 \/ n = k.to /\ n # b /\ (n \in Foreign => At(n) = b)
                 \/ n # k.to /\ At(n) = k.to /\ k.to # b /\ (n \in Hosts => oneHop(At(n)))
    <3>1. k.to \in BBMDs /\ k.to # b /\ k.to \notin Foreign /\ k.to \notin Hosts
      BY Zenon, <1>5, Parties
    <3>2. n \in BBMDs \/ n \in Hosts \/ n \in Foreign
      BY Zenon, Parties
    <3>3. (n \in BBMDs => At(n) = n) /\ (n \in Foreign => n \notin Hosts)
      BY Zenon, Parties
    <3> QED BY Zenon, <2>4, <3>1, <3>2, <3>3
  <2> QED BY Zenon, <2>5, <2>6
<1> QED BY Zenon, <1>1, <1>2, <1>3, <1>4, <1>5, Parties

\* None of them leads back to the BBMD that sends it.
LEMMA FanElsewhere ==
  ASSUME NEW b \in BBMDs, NEW S, Fan(S, b), ~cast.confirmed, NEW k \in S
  PROVE  b \notin Leads(k) /\ Leads(k) \subseteq Nodes
<1>1. b \in Nodes /\ At(b) = b
  BY Zenon, Parties
<1>2. /\ Leads(k) \subseteq Nodes
      /\ \A n \in Nodes :
           n \in Leads(k) <=>
             \/ n = k.to /\ n # b /\ (n \in Foreign => At(n) = b)
             \/ n # k.to /\ At(n) = k.to /\ k.to # b /\ (n \in Hosts => oneHop(At(n)))
  BY Zenon, FanLeads
<1> QED BY Zenon, <1>1, <1>2

\* No two of them lead to the same node.
LEMMA FanApart ==
  ASSUME NEW b \in BBMDs, NEW S, Fan(S, b), ~cast.confirmed,
         NEW k \in S, NEW l \in S, k # l
  PROVE  Leads(k) \cap Leads(l) = {}
<1> SUFFICES ASSUME NEW n \in Nodes, n \in Leads(k), n \in Leads(l) PROVE FALSE
  BY Zenon, FanLeads
<1>1. k.to # l.to
  BY Zenon DEF Fan
<1>2. \A i \in S : n \in Leads(i) <=>
                \/ n = i.to /\ n # b /\ (n \in Foreign => At(n) = b)
                \/ n # i.to /\ At(n) = i.to /\ i.to # b /\ (n \in Hosts => oneHop(At(n)))
  BY Zenon, FanLeads
<1>3. \A i \in S : i.to \in Hosts => At(i.to) = b \/ ~oneHop(At(i.to))
  BY Zenon DEF Fan
<1>4. n \in BBMDs => At(n) = n
  BY Zenon, Parties
<1> QED BY Zenon, <1>1, <1>2, <1>3, <1>4, Parties

(***************************************************************************)
(* Bags.                                                                   *)
(***************************************************************************)
\* Two sets with nothing in common, as bags.
LEMMA BagJoin ==
  ASSUME NEW A, NEW B, \A x \in A : x \notin B
  PROVE  SetToBag(A) (+) SetToBag(B) = SetToBag(A \union B)
BY DEF SetToBag, (+)

\* A bag without one copy of an element.
LEMMA BagLess ==
  ASSUME NEW bag, bag \in [DOMAIN bag -> Nat \ {0}], NEW m \in DOMAIN bag,
         NEW rest, rest = bag (-) SetToBag({m})
  PROVE  /\ rest \in [DOMAIN rest -> Nat \ {0}]
         /\ DOMAIN rest \subseteq DOMAIN bag
         /\ \A k \in DOMAIN bag : k # m => k \in DOMAIN rest /\ rest[k] = bag[k]
         /\ bag[m] = 1 => m \notin DOMAIN rest
<1>0. \A k \in DOMAIN bag : bag[k] \in Nat /\ bag[k] > 0
  OBVIOUS
<1> DEFINE less == [e \in DOMAIN bag |-> IF e \in {m} THEN bag[e] - 1 ELSE bag[e]]
<1>1. rest = [e \in {d \in DOMAIN less : less[d] > 0} |-> less[e]]
  BY Zenon DEF SetToBag, (-)
<1>2. DOMAIN less = DOMAIN bag /\ \A e \in DOMAIN bag : less[e] = IF e \in {m} THEN bag[e] - 1 ELSE bag[e]
  BY Zenon
<1> HIDE DEF less
<1>3. \A e \in DOMAIN bag : less[e] \in Int
  BY <1>0, <1>2
<1>4. \A e \in DOMAIN bag : less[e] > 0 => less[e] \in Nat \ {0}
  BY <1>3
<1>5. DOMAIN rest = {d \in DOMAIN less : less[d] > 0}
  BY Zenon, <1>1
<1>6. \A e \in DOMAIN rest : rest[e] = less[e]
  BY Zenon, <1>1, <1>5
<1>7. rest \in [DOMAIN rest -> Nat \ {0}]
  BY Zenon, <1>1, <1>2, <1>4, <1>5, <1>6
<1>8. ASSUME bag[m] = 1 PROVE ~(less[m] > 0)
  BY <1>2, <1>8
<1> QED BY Zenon, <1>0, <1>2, <1>5, <1>6, <1>7, <1>8

\* A bag with a set of elements more.
LEMMA BagMore ==
  ASSUME NEW bag, bag \in [DOMAIN bag -> Nat \ {0}], NEW S,
         NEW sum, sum = bag (+) SetToBag(S)
  PROVE  /\ sum \in [DOMAIN sum -> Nat \ {0}]
         /\ DOMAIN sum = DOMAIN bag \union S
         /\ \A k \in DOMAIN bag : k \notin S => sum[k] = bag[k]
         /\ \A k \in S : k \notin DOMAIN bag => sum[k] = 1
BY DEF SetToBag, (+)

\* An empty set adds nothing.
LEMMA BagNothing ==
  ASSUME NEW bag, bag \in [DOMAIN bag -> Nat \ {0}]
  PROVE  bag (+) SetToBag({}) = bag /\ bag (+) EmptyBag = bag
BY DEF SetToBag, (+), EmptyBag

\* An element is replaced by a set of others.
Swapped(bag, m, S, sum) == sum = (bag (-) SetToBag({m})) (+) SetToBag(S)

\* What the bag is then: rest, without the element, and the set.
SwapOf(bag, m, S, sum, rest) ==
  /\ DOMAIN rest \subseteq DOMAIN bag
  /\ \A k \in DOMAIN bag : k # m => k \in DOMAIN rest /\ rest[k] = bag[k]
  /\ bag[m] = 1 => m \notin DOMAIN rest
  /\ sum \in [DOMAIN sum -> Nat \ {0}]
  /\ DOMAIN sum = DOMAIN rest \union S
  /\ \A k \in DOMAIN rest : k \notin S => sum[k] = rest[k]
  /\ \A k \in S : k \notin DOMAIN rest => sum[k] = 1

\* It is.
LEMMA BagSwap ==
  ASSUME NEW bag, bag \in [DOMAIN bag -> Nat \ {0}], NEW m, m \in DOMAIN bag, NEW S,
         NEW sum, Swapped(bag, m, S, sum)
  PROVE  \E rest : SwapOf(bag, m, S, sum, rest)
<1>v. PICK rest : rest = bag (-) SetToBag({m})
  BY Zenon
<1>1. /\ rest \in [DOMAIN rest -> Nat \ {0}]
      /\ DOMAIN rest \subseteq DOMAIN bag
      /\ \A k \in DOMAIN bag : k # m => k \in DOMAIN rest /\ rest[k] = bag[k]
      /\ bag[m] = 1 => m \notin DOMAIN rest
  BY ZenonT(30), <1>v, BagLess
<1>2. sum = rest (+) SetToBag(S)
  BY Zenon, <1>v DEF Swapped
<1>3. /\ sum \in [DOMAIN sum -> Nat \ {0}]
      /\ DOMAIN sum = DOMAIN rest \union S
      /\ \A k \in DOMAIN rest : k \notin S => sum[k] = rest[k]
      /\ \A k \in S : k \notin DOMAIN rest => sum[k] = 1
  BY <1>1, <1>2 DEF SetToBag, (+)
<1> QED BY Zenon, <1>1, <1>3 DEF SwapOf

\* Where a frame leads depends on the broadcast and the table of peers only.
LEMMA LeadsSame ==
  ASSUME bdt' = bdt, cast' = cast
  PROVE  \A k : Leads(k)' = Leads(k) /\ FrameOf(k)' = FrameOf(k)
<1> SUFFICES ASSUME NEW k PROVE Leads(k)' = Leads(k) /\ FrameOf(k)' = FrameOf(k)
  BY Zenon
<1>1. FrameOf(k)' = FrameOf(k)
  BY Zenon DEF FrameOf
<1>2. Leads(k)' = Leads(k)
  BY DEF Leads, oneHop
<1> QED BY Zenon, <1>1, <1>2

(***************************************************************************)
(* The steps of the broadcast.                                             *)
(***************************************************************************)
\* A confirmed request leads only to hosts of its own subnet.
LEMMA ConfirmedLeads ==
  ASSUME CastInv, cast # None, cast.confirmed, NEW m \in DOMAIN npdus, NEW n \in Leads(m)
  PROVE  n \in Hosts /\ cast.src \in Hosts /\ SubnetOf[n] = SubnetOf[cast.src]
<1>1. FrameOf(m) /\ cast.src \notin BBMDs /\ cast \in [src : Nodes, confirmed : BOOLEAN]
  BY Zenon DEF CastInv, Apart, Kept
<1>2. m.to \notin BBMDs /\ n = m.to
  BY Zenon DEF Leads
<1>3. cast.src \in Nodes
  BY <1>1
<1>4. ~(m.fn = "distribute" /\ m.to = Home[cast.src] /\ cast.src \in Foreign)
  BY Zenon, <1>2, Parties
<1>5. cast.src \notin Foreign /\ n \in Member(At(cast.src))
  BY Zenon, <1>1, <1>2, <1>4 DEF FrameOf
<1>6. cast.src \in Hosts /\ At(cast.src) = SubnetOf[cast.src] /\ At(cast.src) \in BBMDs
  BY Zenon, <1>1, <1>3, <1>5, Parties
<1>7. n \in Nodes /\ n \notin Foreign /\ At(n) = At(cast.src)
  BY Zenon, <1>5, <1>6, Subnets
<1> QED BY Zenon, <1>2, <1>6, <1>7, Parties

\* A frame is replaced by others that lead, between them, to the nodes that it led to.
Replaces(m, S) ==
  /\ Swapped(npdus, m, S, npdus')
  /\ UNCHANGED <<bdt, fdt, cast, stayed>>
  /\ whole' => whole
  /\ got' \in [Nodes -> {0, 1}]
  /\ \A n \in Nodes : got'[n] = got[n] \/ (n = m.to /\ n \in Leads(m) /\ got'[n] = 1)
  /\ \A k \in S : /\ FrameOf(k) /\ Leads(k) \subseteq Leads(m)
                  /\ \A n \in Leads(k) : got'[n] = 0
  /\ \A k, l \in S : k # l => Leads(k) \cap Leads(l) = {}
  /\ whole' /\ ~cast.confirmed /\ Taken =>
       \A n \in BBMDs \union Hosts \union stayed :
         n \in Leads(m) => got'[n] = 1 \/ \E k \in S : n \in Leads(k)

\* That keeps the invariant.
LEMMA Passed ==
  ASSUME CastInv, cast # None, NEW m \in DOMAIN npdus, NEW S, Replaces(m, S)
  PROVE  CastInv'
<1>1. /\ CastTypes /\ cast \in [src : Nodes, confirmed : BOOLEAN] /\ got[cast.src] = 0
      /\ Apart /\ Kept /\ Everyone
  BY Zenon DEF CastInv
<1>2. npdus \in [DOMAIN npdus -> Nat \ {0}]
  BY Zenon, <1>1 DEF CastTypes
<1>3. PICK rest :
        /\ DOMAIN rest \subseteq DOMAIN npdus
        /\ \A k \in DOMAIN npdus : k # m => k \in DOMAIN rest /\ rest[k] = npdus[k]
        /\ npdus[m] = 1 => m \notin DOMAIN rest
        /\ npdus' \in [DOMAIN npdus' -> Nat \ {0}]
        /\ DOMAIN npdus' = DOMAIN rest \union S
        /\ \A k \in DOMAIN rest : k \notin S => npdus'[k] = rest[k]
        /\ \A k \in S : k \notin DOMAIN rest => npdus'[k] = 1
  <2>1. Swapped(npdus, m, S, npdus')
    BY Zenon DEF Replaces
  <2>2. \E rest : SwapOf(npdus, m, S, npdus', rest)
    BY Zenon, <1>2, <2>1, BagSwap
  <2> QED BY Zenon, <2>2 DEF SwapOf
<1>4. /\ bdt' = bdt /\ fdt' = fdt /\ cast' = cast /\ stayed' = stayed /\ (whole' => whole)
      /\ got' \in [Nodes -> {0, 1}]
      /\ \A n \in Nodes : got'[n] = got[n] \/ (n = m.to /\ n \in Leads(m) /\ got'[n] = 1)
      /\ \A k \in S : /\ FrameOf(k) /\ Leads(k) \subseteq Leads(m)
                      /\ \A n \in Leads(k) : got'[n] = 0
      /\ \A k, l \in S : k # l => Leads(k) \cap Leads(l) = {}
      /\ whole' /\ ~cast.confirmed /\ Taken =>
           \A n \in BBMDs \union Hosts \union stayed :
             n \in Leads(m) => got'[n] = 1 \/ \E k \in S : n \in Leads(k)
  BY Zenon DEF Replaces
<1>6. \A k : Leads(k)' = Leads(k) /\ FrameOf(k)' = FrameOf(k)
  BY Zenon, <1>4, LeadsSame
<1>7. \A k \in DOMAIN npdus : /\ FrameOf(k) /\ cast.src \notin Leads(k)
                              /\ Leads(k) # {} => npdus[k] = 1
                              /\ \A n \in Leads(k) : got[n] = 0
  BY Zenon, <1>4, <1>1 DEF Apart
<1>8. \A k, l \in DOMAIN npdus : k # l => Leads(k) \cap Leads(l) = {}
  BY Zenon, <1>4, <1>1 DEF Apart
<1>9. \A k \in DOMAIN rest : Leads(k) # {} => k # m
  BY Zenon, <1>4, <1>3, <1>7
<1>10. \A k \in DOMAIN rest, l \in S : Leads(k) \cap Leads(l) = {}
  BY Zenon, <1>4, <1>3, <1>8, <1>9
<1>11. \A k : FrameOf(k) => Leads(k) \subseteq Nodes
  <2> SUFFICES ASSUME NEW k, k.to \in Nodes, NEW n \in Leads(k) PROVE n \in Nodes
    BY Zenon, <1>4 DEF FrameOf
  <2>1. CASE k.to \notin BBMDs
    BY Zenon, <1>4, <2>1 DEF Leads
  <2>2. CASE k.to \in BBMDs
    <3>1. n \in Nodes \/ n = k.to \/ n \in Clients(k.to) \/ n \in Hosted(k.to)
      BY Zenon, <1>4, <2>2 DEF Leads
    <3> QED BY Zenon, <1>4, <3>1 DEF Nodes, Clients, Hosted
  <2> QED BY Zenon, <1>4, <2>1, <2>2
<1>12. CastTypes'
  BY Zenon, <1>4, <1>1, <1>3 DEF CastTypes, Registered
<1>13. got'[cast.src] = 0
  <2>1. cast.src \in Nodes
    BY <1>1
  <2> QED BY Zenon, <1>4, <1>1, <1>7, <2>1
<1>14. Apart'
  <2>1. ASSUME NEW k \in DOMAIN rest PROVE k # m \/ Leads(k) = {}
    BY Zenon, <1>4, <1>9
  <2>2. ASSUME NEW k \in DOMAIN rest, NEW n \in Leads(k) PROVE got'[n] = 0
    <3>1. n \in Nodes /\ got[n] = 0
      BY Zenon, <1>4, <1>3, <1>7, <1>11, <2>2
    <3>2. n \notin Leads(m)
      BY Zenon, <1>4, <1>3, <1>8, <1>9, <2>2
    <3> QED BY Zenon, <1>4, <3>1, <3>2
  <2>3. ASSUME NEW k \in DOMAIN npdus' PROVE Leads(k) # {} => npdus'[k] = 1
    <3> SUFFICES ASSUME Leads(k) # {} PROVE npdus'[k] = 1
      BY Zenon, <1>4
    <3>1. CASE k \in S
      BY Zenon, <1>4, <1>3, <1>10, <3>1
    <3>2. CASE k \notin S
      <4>1. k \in DOMAIN rest /\ k \in DOMAIN npdus /\ k # m
        BY Zenon, <1>3, <1>9, <3>2
      <4>2. npdus'[k] = rest[k] /\ rest[k] = npdus[k]
        BY Zenon, <1>3, <3>2, <4>1
      <4> QED BY Zenon, <1>7, <4>1, <4>2
    <3> QED BY Zenon, <1>4, <3>1, <3>2
  <2>4. ASSUME NEW k \in DOMAIN npdus'
        PROVE  FrameOf(k) /\ cast.src \notin Leads(k) /\ \A n \in Leads(k) : got'[n] = 0
    BY Zenon, <1>4, <1>3, <1>7, <2>2
  <2>5. ASSUME NEW k \in DOMAIN npdus', NEW l \in DOMAIN npdus', k # l
        PROVE  Leads(k) \cap Leads(l) = {}
    BY Zenon, <1>4, <1>3, <1>8, <1>10, <2>5
  <2> QED BY Zenon, <1>4, <1>6, <2>3, <2>4, <2>5 DEF Apart
<1>15. Kept'
  <2>1. ASSUME cast.confirmed, NEW n \in Nodes, got'[n] # 0
        PROVE  /\ n \in Hosts /\ cast.src \in Hosts
               /\ SubnetOf[n] = SubnetOf[cast.src]
    <3>1. CASE n \in Leads(m)
      BY Zenon, <1>4, <2>1, <3>1, ConfirmedLeads
    <3>2. CASE got'[n] = got[n]
      BY Zenon, <1>4, <1>1, <2>1, <3>2 DEF Kept
    <3> QED BY Zenon, <1>4, <3>1, <3>2
  <2> QED BY Zenon, <1>4, <1>1, <2>1 DEF Kept
<1>16. Everyone'
  <2> SUFFICES ASSUME whole', ~cast.confirmed, Taken',
                      NEW n \in (BBMDs \union Hosts \union stayed) \ {cast.src}
               PROVE  Led(n)'
    BY Zenon, <1>4 DEF Everyone
  <2>1. npdus # EmptyBag
    <3>1. DOMAIN EmptyBag = {}
      BY DEF EmptyBag, SetToBag
    <3> QED BY Zenon, <1>4, <3>1
  <2>2. Taken /\ whole
    BY Zenon, <1>4, <2>1 DEF Taken
  <2>3. Led(n)
    BY Zenon, <1>4, <1>1, <2>2 DEF Everyone
  <2>4. n \in Nodes
    BY Zenon, <1>4, <1>1 DEF Nodes, CastTypes
  <2>5. CASE n \in Leads(m)
    BY Zenon, <1>4, <1>3, <1>6, <2>2, <2>5 DEF Led
  <2>6. CASE n \notin Leads(m)
    <3>1. got'[n] = got[n]
      BY Zenon, <1>4, <2>4, <2>6
    <3>2. \A k \in DOMAIN npdus : n \in Leads(k) => k \in DOMAIN npdus'
      BY Zenon, <1>4, <1>3, <2>6
    <3> QED BY Zenon, <1>4, <1>6, <2>3, <3>1, <3>2 DEF Led
  <2> QED BY Zenon, <1>4, <2>5, <2>6
<1> QED BY Zenon, <1>4, <1>1, <1>12, <1>13, <1>14, <1>15, <1>16 DEF CastInv, Idle

\* A frame is lost.
LEMMA LoseKeeps ==
  ASSUME CastInv, NEW m \in DOMAIN npdus, Lose(m), cast # None
  PROVE  CastInv'
<1>1. /\ npdus' = npdus (-) SetToBag({m}) /\ whole' = FALSE
      /\ UNCHANGED <<bdt, fdt, cast, stayed, got>>
  BY Zenon DEF Lose
<1>2. npdus \in [DOMAIN npdus -> Nat \ {0}] /\ got \in [Nodes -> {0, 1}]
  BY Zenon DEF CastInv, CastTypes
<1>3. npdus' \in [DOMAIN npdus' -> Nat \ {0}]
  BY Zenon, <1>1, <1>2, BagLess
<1> DEFINE S == {}
<1>4. Swapped(npdus, m, S, npdus')
  BY Zenon, <1>1, <1>3, BagNothing DEF Swapped
<1>5. \A k \in S : FALSE
  OBVIOUS
<1> HIDE DEF S
<1>6. Replaces(m, S)
  BY Zenon, <1>1, <1>2, <1>4, <1>5 DEF Replaces
<1> QED BY Zenon, <1>6, Passed

(***************************************************************************)
(* What a BBMD sends: to its peers, to its foreign devices, to its subnet. *)
(***************************************************************************)

\* The frames to the peers (distribute).
ToPeers(b, o) == UNION {forwardAddress(b, p, o) : p \in Peers(b, o)}

\* The frames to the foreign devices (distribute).
ToForeign(b, o) == {Frame("forwarded", b, f, o) : f \in FDT(b) \ {o}}

\* The frames to the peers.
LEMMA PeerFrames ==
  ASSUME NEW b \in BBMDs, NEW o, NEW k
  PROVE  k \in ToPeers(b, o) <=>
           \E p \in Peers(b, o) : \E n :
             k = Frame("forwarded", b, n, o) /\ (IF oneHop(p) THEN n = p ELSE n \in Member(p))
<1>1. {b} \cap Hosts = {}
  BY Zenon, Parties
<1>2. \A p : LocalCast("forwarded", b, p, o) = {Frame("forwarded", b, n, o) : n \in Member(p)}
  BY Zenon, <1>1 DEF LocalCast
<1>3. \A p : k \in forwardAddress(b, p, o) <=>
               \E n : k = Frame("forwarded", b, n, o) /\ (IF oneHop(p) THEN n = p ELSE n \in Member(p))
  BY Zenon, <1>2 DEF forwardAddress
<1> QED BY Zenon, <1>3 DEF ToPeers

\* A frame to a peer goes to the peer, or to a node of its subnet.
LEMMA PeerSent ==
  ASSUME NEW b \in BBMDs, NEW o, NEW k \in ToPeers(b, o)
  PROVE  \E n \in Nodes : /\ k = Frame("forwarded", b, n, o)
                          /\ n \notin Foreign /\ At(n) # b
                          /\ n \in Hosts => ~oneHop(At(n))
<1>1. PICK p \in Peers(b, o) : \E n :
           k = Frame("forwarded", b, n, o) /\ (IF oneHop(p) THEN n = p ELSE n \in Member(p))
  BY Zenon, PeerFrames
<1>2. PICK n : k = Frame("forwarded", b, n, o) /\ (IF oneHop(p) THEN n = p ELSE n \in Member(p))
  BY Zenon, <1>1
<1>3. p \in BBMDs /\ p # b
  BY Zenon DEF Peers
<1>4. CASE oneHop(p)
  BY Zenon, <1>2, <1>3, <1>4, Parties
<1>5. CASE ~oneHop(p)
  <2>1. n \in Nodes /\ n \notin Foreign /\ At(n) = p
    BY Zenon, <1>2, <1>3, <1>5, Subnets
  <2> QED BY Zenon, <1>2, <1>3, <1>5, <2>1
<1> QED BY Zenon, <1>4, <1>5

\* A frame to a foreign device.
LEMMA ForeignSent ==
  ASSUME NEW b, NEW o, NEW k \in ToForeign(b, o)
  PROVE  \E n \in Foreign : k = Frame("forwarded", b, n, o) /\ n # o /\ n \in Nodes
BY Zenon, Parties DEF ToForeign, FDT

\* A frame on the BBMD's own subnet.
LEMMA LocalSent ==
  ASSUME NEW b \in BBMDs, NEW o, NEW fn, NEW k \in LocalCast(fn, b, b, o)
  PROVE  \E n \in Nodes : k = Frame(fn, b, n, o) /\ n \notin Foreign /\ At(n) = b
<1>1. PICK n \in Member(b) : k = Frame(fn, b, n, o)
  BY Zenon DEF LocalCast
<1> QED BY Zenon, <1>1, Subnets

\* They go to different nodes.
LEMMA SentFan ==
  ASSUME NEW b \in BBMDs, NEW o, NEW fn, NEW S,
         S \subseteq ToPeers(b, o) \union ToForeign(b, o) \union LocalCast(fn, b, b, o)
  PROVE  Fan(S, b)
<1>1. ASSUME NEW k \in S
      PROVE  \E n \in Nodes :
               \/ /\ k = Frame("forwarded", b, n, o) /\ n \notin Foreign /\ At(n) # b
                  /\ n \in Hosts => ~oneHop(At(n))
               \/ k = Frame("forwarded", b, n, o) /\ n \in Foreign
               \/ k = Frame(fn, b, n, o) /\ n \notin Foreign /\ At(n) = b
  <2>1. k \in ToPeers(b, o) \/ k \in ToForeign(b, o) \/ k \in LocalCast(fn, b, b, o)
    BY Zenon
  <2>2. CASE k \in ToPeers(b, o)
    BY Zenon, <2>2, PeerSent
  <2>3. CASE k \in ToForeign(b, o)
    <3>1. PICK n \in Foreign : k = Frame("forwarded", b, n, o) /\ n \in Nodes
      BY Zenon, <2>3, ForeignSent
    <3> QED BY Zenon, <3>1
  <2>4. CASE k \in LocalCast(fn, b, b, o)
    <3>1. PICK n \in Nodes : k = Frame(fn, b, n, o) /\ n \notin Foreign /\ At(n) = b
      BY Zenon, <2>4, LocalSent
    <3> QED BY Zenon, <3>1
  <2> QED BY Zenon, <2>1, <2>2, <2>3, <2>4
<1>2. \A k \in S :
        /\ k.from = b /\ k.to \in Nodes
        /\ \/ /\ k = Frame("forwarded", b, k.to, o) /\ k.to \notin Foreign /\ At(k.to) # b
              /\ k.to \in Hosts => ~oneHop(At(k.to))
           \/ k = Frame("forwarded", b, k.to, o) /\ k.to \in Foreign
           \/ k = Frame(fn, b, k.to, o) /\ k.to \notin Foreign /\ At(k.to) = b
  <2> SUFFICES ASSUME NEW k \in S
               PROVE  /\ k.from = b /\ k.to \in Nodes
                      /\ \/ /\ k = Frame("forwarded", b, k.to, o) /\ k.to \notin Foreign /\ At(k.to) # b
                            /\ k.to \in Hosts => ~oneHop(At(k.to))
                         \/ k = Frame("forwarded", b, k.to, o) /\ k.to \in Foreign
                         \/ k = Frame(fn, b, k.to, o) /\ k.to \notin Foreign /\ At(k.to) = b
    BY Zenon
  <2>1. PICK n \in Nodes :
               \/ /\ k = Frame("forwarded", b, n, o) /\ n \notin Foreign /\ At(n) # b
                  /\ n \in Hosts => ~oneHop(At(n))
               \/ k = Frame("forwarded", b, n, o) /\ n \in Foreign
               \/ k = Frame(fn, b, n, o) /\ n \notin Foreign /\ At(n) = b
    BY Zenon, <1>1
  <2>2. k.to = n /\ k.from = b
    BY <2>1, FrameFields
  <2> QED BY Zenon, <2>1, <2>2
<1>3. \A n : Frame("forwarded", b, n, o).fn = "forwarded"
  BY FrameFields
<1>4. ASSUME NEW k \in S
      PROVE  /\ k.from = b /\ k.to \in Nodes
             /\ k.to \in Foreign \/ k.to \in BBMDs \ {b} => k.fn = "forwarded"
             /\ k.to \in Hosts => At(k.to) = b \/ ~oneHop(At(k.to))
  BY Zenon, <1>2, <1>3, Parties
<1>5. ASSUME NEW k \in S, NEW l \in S, k.to = l.to PROVE k = l
  <2>1. k.to \notin Foreign /\ At(k.to) = b => k = Frame(fn, b, k.to, o) /\ l = Frame(fn, b, k.to, o)
    BY Zenon, <1>2, <1>5
  <2>2. k.to \in Foreign \/ At(k.to) # b => k = Frame("forwarded", b, k.to, o) /\ l = Frame("forwarded", b, k.to, o)
    BY Zenon, <1>2, <1>5
  <2> QED BY Zenon, <2>1, <2>2
<1> QED BY Zenon, <1>4, <1>5 DEF Fan

\* The peers' nodes are reached through the peers.
LEMMA PeersCovered ==
  ASSUME NEW b \in BBMDs, NEW o \in Nodes, At(o) = b, NEW S, Fan(S, b), ~cast.confirmed,
         ToPeers(b, o) \subseteq S, NEW n \in Nodes, At(n) # b
  PROVE  \E k \in S : n \in Leads(k)
<1>v. PICK p : p = At(n)
  BY Zenon
<1>1. p \in BBMDs /\ p # b /\ p \in Nodes /\ At(p) = p /\ p \notin Foreign
  BY Zenon, <1>v, Parties, AtBBMD
<1>2. p \in Peers(b, o)
  BY Zenon, <1>1 DEF Peers
<1>3. \A k : (\E i : k = Frame("forwarded", b, i, o) /\ (IF oneHop(p) THEN i = p ELSE i \in Member(p)))
               => k \in S
  BY Zenon, <1>2, PeerFrames
<1>4. \A i \in Nodes : At(i) = p /\ i \notin Foreign <=> i \in Member(p)
  BY Zenon, <1>1, Subnets
<1>5. Frame("forwarded", b, p, o) \in S
  BY Zenon, <1>1, <1>3, <1>4
<1>6. ~oneHop(p) /\ n \notin Foreign => Frame("forwarded", b, n, o) \in S
  BY Zenon, <1>3, <1>4, <1>v
<1>7. \A i : Frame("forwarded", b, i, o).to = i
  BY FrameFields
<1>8. CASE n = p \/ n \in Foreign \/ oneHop(p)
  <2>1. n \in Leads(Frame("forwarded", b, p, o))
    <3>v. PICK k \in S : k = Frame("forwarded", b, p, o)
      BY Zenon, <1>5
    <3>1. k.to = p
      BY Zenon, <1>7, <3>v
    <3>2. n \in Leads(k) <=>
                \/ n = p /\ n # b /\ (n \in Foreign => At(n) = b)
                \/ n # p /\ At(n) = p /\ p # b /\ (n \in Hosts => oneHop(At(n)))
      BY Zenon, <3>1, FanLeads
    <3>3. n \in Leads(k)
      BY Zenon, <1>1, <1>8, <1>v, <3>2, Parties
    <3> QED BY Zenon, <3>3, <3>v
  <2> QED BY Zenon, <1>5, <2>1
<1>9. CASE ~(n = p \/ n \in Foreign \/ oneHop(p))
  <2>1. n \in Leads(Frame("forwarded", b, n, o))
    <3>v. PICK k \in S : k = Frame("forwarded", b, n, o)
      BY Zenon, <1>6, <1>9
    <3>1. k.to = n /\ n # b
      BY Zenon, <1>1, <1>7, <3>v, Parties
    <3>2. n \in Leads(k)
      BY Zenon, <1>9, <3>1, FanLeads
    <3> QED BY Zenon, <3>2, <3>v
  <2> QED BY Zenon, <1>6, <1>9, <2>1
<1> QED BY Zenon, <1>8, <1>9

\* The BBMD's own foreign devices and hosts.
LEMMA OwnCovered ==
  ASSUME NEW b \in BBMDs, NEW o, NEW fn, NEW S, Fan(S, b), ~cast.confirmed, NEW n \in Nodes, At(n) = b,
         \/ ToForeign(b, o) \subseteq S /\ n \in Foreign /\ Registered(b, n) /\ n # o
         \/ LocalCast(fn, b, b, o) \subseteq S /\ n \in Hosts
  PROVE  \E k \in S : n \in Leads(k)
<1>1. {b} \cap Hosts = {} /\ n # b
  BY Zenon, Parties
<1>2. PICK k \in S : k.to = n
  <2>1. CASE ToForeign(b, o) \subseteq S /\ n \in Foreign /\ Registered(b, n) /\ n # o
    <3>1. Frame("forwarded", b, n, o) \in S
      BY Zenon, <2>1 DEF ToForeign, FDT
    <3> QED BY <3>1, FrameFields
  <2>2. CASE LocalCast(fn, b, b, o) \subseteq S /\ n \in Hosts
    <3>1. n \in Member(b)
      BY Zenon, <2>2, Subnets, Parties
    <3>2. Frame(fn, b, n, o) \in S
      BY Zenon, <1>1, <2>2, <3>1 DEF LocalCast
    <3> QED BY <3>2, FrameFields
  <2> QED BY Zenon, <2>1, <2>2
<1>3. n \in Leads(k)
  BY Zenon, <1>1, <1>2, FanLeads
<1> QED BY Zenon, <1>3

\* distribute, as a bag of the frames.
LEMMA DistributeBag ==
  ASSUME NEW b \in BBMDs, NEW o
  PROVE  /\ distribute(b, o, TRUE) = SetToBag(ToPeers(b, o) \union ToForeign(b, o))
         /\ distribute(b, o, FALSE) = SetToBag(ToForeign(b, o))
<1>1. \A k \in ToPeers(b, o) : k \notin ToForeign(b, o)
  <2> SUFFICES ASSUME NEW k, k \in ToPeers(b, o), k \in ToForeign(b, o) PROVE FALSE
    BY Zenon
  <2>1. PICK n \in Nodes : k = Frame("forwarded", b, n, o) /\ n \notin Foreign
    BY Zenon, PeerSent
  <2>2. PICK f \in Foreign : k = Frame("forwarded", b, f, o)
    BY Zenon, ForeignSent
  <2> QED BY <2>1, <2>2, FrameFields
<1>2. distribute(b, o, TRUE) = SetToBag(ToPeers(b, o)) (+) SetToBag(ToForeign(b, o))
  BY Zenon DEF distribute, ToPeers, ToForeign
<1>3. distribute(b, o, FALSE) = SetToBag({}) (+) SetToBag(ToForeign(b, o))
  BY Zenon DEF distribute, ToForeign
<1>4. SetToBag(ToPeers(b, o)) (+) SetToBag(ToForeign(b, o)) = SetToBag(ToPeers(b, o) \union ToForeign(b, o))
  BY Zenon, <1>1, BagJoin
<1>5. SetToBag({}) (+) SetToBag(ToForeign(b, o)) = SetToBag({} \union ToForeign(b, o))
  BY Zenon, BagJoin
<1>6. {} \union ToForeign(b, o) = ToForeign(b, o)
  BY Zenon
<1> QED BY Zenon, <1>2, <1>3, <1>4, <1>5, <1>6

\* The frames to the subnet are others than those distributed.
LEMMA LocalApart ==
  ASSUME NEW b \in BBMDs, NEW o, NEW fn
  PROVE  \A k \in LocalCast(fn, b, b, o) : k \notin ToPeers(b, o) /\ k \notin ToForeign(b, o)
<1> SUFFICES ASSUME NEW k \in LocalCast(fn, b, b, o), k \in ToPeers(b, o) \/ k \in ToForeign(b, o)
             PROVE  FALSE
  BY Zenon
<1>1. PICK n \in Nodes : k = Frame(fn, b, n, o) /\ n \notin Foreign /\ At(n) = b
  BY Zenon, LocalSent
<1>2. k.to = n
  BY <1>1, FrameFields
<1>3. CASE k \in ToPeers(b, o)
  <2>1. PICK i \in Nodes : k = Frame("forwarded", b, i, o) /\ At(i) # b
    BY Zenon, <1>3, PeerSent
  <2> QED BY <1>1, <1>2, <2>1, FrameFields
<1>4. CASE k \in ToForeign(b, o)
  <2>1. PICK i \in Foreign : k = Frame("forwarded", b, i, o)
    BY Zenon, <1>4, ForeignSent
  <2> QED BY <1>1, <1>2, <2>1, FrameFields
<1> QED BY Zenon, <1>3, <1>4

\* A frame reaches a node that is no BBMD.
LEMMA NodeKeeps ==
  ASSUME CastInv, NEW m \in DOMAIN npdus, Deliver(m), cast # None, m.to \notin BBMDs
  PROVE  CastInv'
<1>1. /\ npdus' = npdus (-) SetToBag({m})
      /\ got' = [got EXCEPT ![m.to] = @ + IF takes(m.to, m) THEN 1 ELSE 0]
      /\ UNCHANGED <<bdt, fdt, cast, whole, stayed>>
  BY Zenon DEF Deliver
<1>2. npdus \in [DOMAIN npdus -> Nat \ {0}] /\ got \in [Nodes -> {0, 1}]
  BY Zenon DEF CastInv, CastTypes
<1>3. npdus' \in [DOMAIN npdus' -> Nat \ {0}]
  BY Zenon, <1>1, <1>2, BagLess
<1> DEFINE S == {}
<1>4. Swapped(npdus, m, S, npdus')
  BY Zenon, <1>1, <1>3, BagNothing DEF Swapped
<1>5. \A k \in S : FALSE
  OBVIOUS
<1> HIDE DEF S
<1>6. m.to \in Nodes /\ \A n \in Leads(m) : got[n] = 0
  BY Zenon DEF CastInv, Apart, FrameOf
<1>7. \A n : n \in Leads(m) <=> n = m.to /\ takes(n, m)
  BY Zenon DEF Leads
<1>8. takes(m.to, m) => got[m.to] = 0
  BY Zenon, <1>6, <1>7
<1>9. got[m.to] \in {0, 1}
  BY Zenon, <1>2, <1>6
<1>10. got[m.to] + (IF takes(m.to, m) THEN 1 ELSE 0) = IF takes(m.to, m) THEN 1 ELSE got[m.to]
  BY <1>8, <1>9
<1>11. got' = [got EXCEPT ![m.to] = IF takes(m.to, m) THEN 1 ELSE got[m.to]]
  BY Zenon, <1>1, <1>10
<1>12. \A n \in Nodes : got'[n] = IF n = m.to /\ takes(n, m) THEN 1 ELSE got[n]
  BY Zenon, <1>2, <1>11
<1>13. got' \in [Nodes -> {0, 1}]
  BY Zenon, <1>2, <1>11
<1>14. \A n \in Leads(m) : got'[n] = 1
  BY Zenon, <1>6, <1>7, <1>12
<1>15. bdt' = bdt /\ fdt' = fdt /\ cast' = cast /\ stayed' = stayed /\ whole' = whole
  BY Zenon, <1>1
<1>16. Replaces(m, S)
  BY Zenon, <1>4, <1>5, <1>7, <1>12, <1>13, <1>14, <1>15 DEF Replaces
<1> QED BY Zenon, <1>16, Passed

\* A BBMD takes a frame and sends the frames of S.
Spread(m, b, S) ==
  /\ m.to = b /\ b \in BBMDs /\ b \in Leads(m) /\ Fan(S, b) /\ ~cast.confirmed
  /\ npdus' = (npdus (-) SetToBag({m})) (+) SetToBag(S)
  /\ got' = [got EXCEPT ![b] = @ + 1]
  /\ UNCHANGED <<bdt, fdt, cast, whole, stayed>>
  /\ \A k \in S : FrameOf(k) /\ Leads(k) \subseteq Leads(m)
  /\ \A n \in BBMDs \union Hosts \union stayed :
       n \in Leads(m) => n = b \/ \E k \in S : n \in Leads(k)

\* That keeps the invariant.
LEMMA SpreadKeeps ==
  ASSUME CastInv, NEW m \in DOMAIN npdus, cast # None, NEW b, NEW S, Spread(m, b, S)
  PROVE  CastInv'
<1>1. /\ m.to = b /\ b \in BBMDs /\ b \in Leads(m) /\ Fan(S, b) /\ ~cast.confirmed
      /\ npdus' = (npdus (-) SetToBag({m})) (+) SetToBag(S)
      /\ got' = [got EXCEPT ![b] = @ + 1]
      /\ bdt' = bdt /\ fdt' = fdt /\ cast' = cast /\ whole' = whole /\ stayed' = stayed
      /\ \A k \in S : FrameOf(k) /\ Leads(k) \subseteq Leads(m)
      /\ \A n \in BBMDs \union Hosts \union stayed :
           n \in Leads(m) => n = b \/ \E k \in S : n \in Leads(k)
  BY Zenon DEF Spread
<1>2. npdus \in [DOMAIN npdus -> Nat \ {0}] /\ got \in [Nodes -> {0, 1}]
  BY Zenon DEF CastInv, CastTypes
<1>3. Swapped(npdus, m, S, npdus')
  BY Zenon, <1>1 DEF Swapped
<1>4. b \in Nodes /\ \A n \in Leads(m) : got[n] = 0
  BY Zenon, <1>1, Parties DEF CastInv, Apart
<1>5. got[b] + 1 = 1
  <2>1. got[b] = 0
    BY Zenon, <1>1, <1>4
  <2> QED BY <2>1
<1>6. got' = [got EXCEPT ![b] = 1]
  BY Zenon, <1>1, <1>5
<1>7. got' \in [Nodes -> {0, 1}]
  BY Zenon, <1>2, <1>6
<1>8. \A n \in Nodes : got'[n] = IF n = b THEN 1 ELSE got[n]
  BY Zenon, <1>2, <1>6
<1>9. \A k \in S : b \notin Leads(k) /\ Leads(k) \subseteq Nodes
  BY Zenon, <1>1, FanElsewhere
<1>10. \A k \in S : \A n \in Leads(k) : got'[n] = 0
  BY Zenon, <1>1, <1>4, <1>8, <1>9
<1>11. \A k, l \in S : k # l => Leads(k) \cap Leads(l) = {}
  BY Zenon, <1>1, FanApart
<1>12. Replaces(m, S)
  BY Zenon, <1>1, <1>3, <1>4, <1>7, <1>8, <1>10, <1>11 DEF Replaces
<1> QED BY Zenon, <1>12, Passed

\* The frames a BBMD sends are frames of the broadcast.
LEMMA SentOf ==
  ASSUME cast # None, cast \in [src : Nodes, confirmed : BOOLEAN], ~cast.confirmed,
         NEW b \in BBMDs, NEW k,
         \/ k \in ToPeers(b, cast.src) /\ At(cast.src) = b
         \/ k \in ToForeign(b, cast.src)
         \/ k \in LocalCast("forwarded", b, b, cast.src)
  PROVE  FrameOf(k)
<1>1. PICK n \in Nodes : /\ k = Frame("forwarded", b, n, cast.src)
                         /\ n \in BBMDs /\ n # b => At(cast.src) = b
  <2>1. CASE k \in ToPeers(b, cast.src) /\ At(cast.src) = b
    <3>1. PICK n \in Nodes : k = Frame("forwarded", b, n, cast.src)
      BY <2>1, PeerSent
    <3> QED BY Zenon, <2>1, <3>1
  <2>2. CASE k \in ToForeign(b, cast.src)
    <3>1. PICK n \in Foreign : k = Frame("forwarded", b, n, cast.src)
      BY Zenon, <2>2, ForeignSent
    <3> QED BY Zenon, <3>1, Parties
  <2>3. CASE k \in LocalCast("forwarded", b, b, cast.src)
    <3>1. PICK n \in Nodes : k = Frame("forwarded", b, n, cast.src) /\ At(n) = b
      BY <2>3, LocalSent
    <3> QED BY Zenon, <3>1, Parties
  <2> QED BY Zenon, <2>1, <2>2, <2>3
<1>2. k.fn = "forwarded" /\ k.from = b /\ k.to = n /\ k.origin = cast.src
  BY <1>1, FrameFields
<1> QED BY Zenon, <1>1, <1>2 DEF FrameOf

\* A host's broadcast reaches its BBMD.
LEMMA OriginalSpread ==
  ASSUME CastInv, NEW m \in DOMAIN npdus, Deliver(m), cast # None,
         NEW b \in BBMDs, m.to = b, m.from # b, ~cast.confirmed, m.fn = "original"
  PROVE  CastInv'
<1>v. PICK o : o = cast.src
  BY Zenon
<1>1. /\ FrameOf(m) /\ CastTypes
      /\ cast \in [src : Nodes, confirmed : BOOLEAN]
  BY Zenon DEF CastInv, Apart
<1>2. o \in Nodes
  BY <1>1, <1>v
<1>3. "original" # "distribute" /\ "original" # "forwarded"
  OBVIOUS
<1>4. m.from = o /\ o \notin Foreign /\ b \in Member(At(o))
  BY Zenon, <1>1, <1>3, <1>v DEF FrameOf
<1>5. At(o) = b /\ o \in Hosts
  <2>1. PICK a \in BBMDs : a = At(o)
    BY Zenon, <1>2, AtBBMD
  <2>2. At(b) = a /\ At(b) = b
    BY Zenon, <1>4, <2>1, Subnets, Parties
  <2>3. o \notin BBMDs
    BY Zenon, <1>4, <2>1, <2>2, Parties
  <2> QED BY Zenon, <1>2, <1>4, <2>1, <2>2, <2>3, Parties
<1> DEFINE S == ToPeers(b, o) \union ToForeign(b, o)
<1>6. Fan(S, b)
  BY Zenon, SentFan
<1>7. HandleBVLC(b, m) = [deliver |-> TRUE, send |-> distribute(b, m.from, TRUE), nak |-> FALSE]
  BY DEF HandleBVLC, confirmedRequest
<1>8. HandleBVLC(b, m).deliver = TRUE /\ HandleBVLC(b, m).send = SetToBag(S)
  <2>1. HandleBVLC(b, m).deliver = TRUE /\ HandleBVLC(b, m).send = distribute(b, m.from, TRUE)
    BY <1>7
  <2> QED BY Zenon, <1>4, <2>1, DistributeBag
<1>9. /\ npdus' = (npdus (-) SetToBag({m})) (+) HandleBVLC(m.to, m).send
      /\ got' = [got EXCEPT ![m.to] = @ + IF HandleBVLC(m.to, m).deliver THEN 1 ELSE 0]
      /\ UNCHANGED <<bdt, fdt, cast, whole, stayed>>
  BY Zenon DEF Deliver
<1>10. /\ npdus' = (npdus (-) SetToBag({m})) (+) SetToBag(S)
       /\ got' = [got EXCEPT ![b] = @ + 1]
  BY Zenon, <1>8, <1>9
<1>11. \A n : n \in Leads(m) <=> n \in Nodes /\ n \notin Hosted(b)
  BY Zenon DEF Leads
<1>12. \A n : n \in Hosted(b) <=> n \in Hosts /\ At(n) = b
  BY Zenon, Subnets
<1>13. b \in Leads(m)
  BY Zenon, <1>11, <1>12, Parties
<1>14. ASSUME NEW k \in S PROVE FrameOf(k)
  BY Zenon, <1>1, <1>5, <1>v, SentOf
<1>15. ASSUME NEW k \in S, NEW n \in Leads(k) PROVE n \in Leads(m)
  <2>1. n \in Nodes /\ \/ n = k.to
                       \/ At(n) = k.to /\ k.to # b
    <3> HIDE DEF S
    <3>1. Leads(k) \subseteq Nodes
      BY Zenon, <1>6, FanLeads
    <3>2. n \in Nodes /\ n \in Leads(k)
      BY Zenon, <1>15, <3>1
    <3> QED BY Zenon, <1>6, <3>2, FanLeads
  <2>2. ASSUME n = k.to, n \in Hosts, At(n) = b PROVE FALSE
    <3>1. CASE k \in ToPeers(b, o)
      <4>1. PICK i \in Nodes : k = Frame("forwarded", b, i, o) /\ At(i) # b
        BY Zenon, <3>1, PeerSent
      <4> QED BY <2>2, <4>1, FrameFields
    <3>2. CASE k \in ToForeign(b, o)
      <4>1. PICK i \in Foreign : k = Frame("forwarded", b, i, o)
        BY Zenon, <3>2, ForeignSent
      <4>2. k.to = i
        BY <4>1, FrameFields
      <4> QED BY Zenon, <2>2, <4>2, Parties
    <3> QED BY Zenon, <3>1, <3>2
  <2> QED BY Zenon, <1>11, <1>12, <2>1, <2>2
<1>16. ASSUME NEW n \in BBMDs \union Hosts \union stayed, n \in Leads(m), n # b
       PROVE  \E k \in S : n \in Leads(k)
  <2>1. n \in Nodes /\ (n \in Foreign => n \in stayed)
    BY Zenon, <1>11, <1>16, Parties
  <2>2. CASE At(n) # b
    BY Zenon, <1>2, <1>5, <1>6, <2>1, <2>2, PeersCovered
  <2>3. CASE At(n) = b
    <3>1. n \in Foreign
      BY Zenon, <1>11, <1>12, <1>16, <2>1, <2>3, Parties
    <3>2. Registered(b, n) /\ n # o
      <4>1. Registered(Home[n], n)
        BY Zenon, <1>1, <2>1, <3>1 DEF CastTypes
      <4>2. Home[n] = b
        BY Zenon, <2>3, <3>1, Parties
      <4> QED BY Zenon, <1>4, <3>1, <4>1, <4>2
    <3>3. ToForeign(b, o) \subseteq S
      BY Zenon
    <3> QED BY Zenon, <1>6, <2>1, <2>3, <3>1, <3>2, <3>3, OwnCovered
  <2> QED BY Zenon, <2>2, <2>3
<1>17. Spread(m, b, S)
  <2> HIDE DEF S
  <2> QED BY Zenon, <1>6, <1>9, <1>10, <1>13, <1>14, <1>15, <1>16 DEF Spread
<1> QED BY Zenon, <1>17, SpreadKeeps

\* A foreign device's broadcast reaches its BBMD.
LEMMA DistributeSpread ==
  ASSUME CastInv, NEW m \in DOMAIN npdus, Deliver(m), cast # None,
         NEW b \in BBMDs, m.to = b, m.from # b, ~cast.confirmed, m.fn = "distribute",
         Registered(b, m.from)
  PROVE  CastInv'
<1>v. PICK o : o = cast.src
  BY Zenon
<1>1. /\ FrameOf(m) /\ CastTypes
      /\ cast \in [src : Nodes, confirmed : BOOLEAN]
  BY Zenon DEF CastInv, Apart
<1>2. o \in Nodes
  BY <1>1, <1>v
<1>3. "distribute" # "original" /\ "distribute" # "forwarded"
  OBVIOUS
<1>4. m.from = o /\ o \in Foreign /\ b = Home[o]
  BY Zenon, <1>1, <1>3, <1>v DEF FrameOf
<1>5. At(o) = b
  BY Zenon, <1>4, Parties
<1> DEFINE L == LocalCast("forwarded", b, b, o)
<1> DEFINE P == ToPeers(b, o) \union ToForeign(b, o)
<1> DEFINE S == L \union P
<1>6. Fan(S, b)
  <2>1. S \subseteq ToPeers(b, o) \union ToForeign(b, o) \union L
    BY Zenon
  <2> QED BY <2>1, SentFan
<1>7. HandleBVLC(b, m) = [deliver |-> TRUE, nak |-> FALSE,
                          send |-> SetToBag(LocalCast("forwarded", b, b, m.from))
                              (+) distribute(b, m.from, TRUE)]
  BY DEF HandleBVLC, confirmedRequest
<1>8. SetToBag(L) (+) SetToBag(P) = SetToBag(S)
  <2>1. \A k \in L : k \notin P
    BY LocalApart
  <2> HIDE DEF L, P
  <2> QED BY Zenon, <2>1, BagJoin
<1>9. distribute(b, o, TRUE) = SetToBag(P)
  BY Zenon, DistributeBag
<1>10. HandleBVLC(b, m).deliver = TRUE /\ HandleBVLC(b, m).send = SetToBag(S)
  <2>1. /\ HandleBVLC(b, m).deliver = TRUE
        /\ HandleBVLC(b, m).send = SetToBag(LocalCast("forwarded", b, b, m.from))
                                      (+) distribute(b, m.from, TRUE)
    BY <1>7
  <2> QED BY Zenon, <1>4, <1>8, <1>9, <2>1
<1>11. /\ npdus' = (npdus (-) SetToBag({m})) (+) HandleBVLC(m.to, m).send
       /\ got' = [got EXCEPT ![m.to] = @ + IF HandleBVLC(m.to, m).deliver THEN 1 ELSE 0]
       /\ UNCHANGED <<bdt, fdt, cast, whole, stayed>>
  BY Zenon DEF Deliver
<1>12. /\ npdus' = (npdus (-) SetToBag({m})) (+) SetToBag(S)
       /\ got' = [got EXCEPT ![b] = @ + 1]
  BY Zenon, <1>10, <1>11
<1>13. \A n : n \in Leads(m) <=> n \in Nodes /\ n # o
  BY Zenon, <1>3, <1>4 DEF Leads
<1>14. b \in Leads(m)
  BY Zenon, <1>4, <1>13, Parties
<1>15. ASSUME NEW k \in S PROVE FrameOf(k)
  <2>1. \/ k \in ToPeers(b, o) \/ k \in ToForeign(b, o)
        \/ k \in LocalCast("forwarded", b, b, o)
    BY Zenon
  <2> QED BY Zenon, <1>1, <1>5, <1>v, <2>1, SentOf
<1>16. ASSUME NEW k \in S, NEW n \in Leads(k) PROVE n \in Leads(m)
  <2>1. n \in Nodes /\ \/ n = k.to
                       \/ At(n) = k.to /\ k.to # b
    <3> HIDE DEF S
    <3>1. Leads(k) \subseteq Nodes
      BY Zenon, <1>6, FanLeads
    <3>2. n \in Nodes /\ n \in Leads(k)
      BY Zenon, <1>16, <3>1
    <3> QED BY Zenon, <1>6, <3>2, FanLeads
  <2>2. ASSUME k.to = o PROVE FALSE
    <3>1. CASE k \in ToPeers(b, o)
      <4>1. PICK i \in Nodes : k = Frame("forwarded", b, i, o) /\ i \notin Foreign
        BY Zenon, <3>1, PeerSent
      <4> QED BY <1>4, <2>2, <4>1, FrameFields
    <3>2. CASE k \in ToForeign(b, o)
      <4>1. PICK i \in Foreign : k = Frame("forwarded", b, i, o) /\ i # o
        BY Zenon, <3>2, ForeignSent
      <4> QED BY <2>2, <4>1, FrameFields
    <3>3. CASE k \in L
      <4>1. PICK i \in Nodes : k = Frame("forwarded", b, i, o) /\ i \notin Foreign
        BY <3>3, LocalSent
      <4> QED BY <1>4, <2>2, <4>1, FrameFields
    <3> QED BY Zenon, <3>1, <3>2, <3>3
  <2> QED BY Zenon, <1>5, <1>13, <2>1, <2>2
<1>17. ASSUME NEW n \in BBMDs \union Hosts \union stayed, n \in Leads(m), n # b
       PROVE  \E k \in S : n \in Leads(k)
  <2>1. n \in Nodes /\ n # o /\ (n \in Foreign => n \in stayed)
    BY Zenon, <1>13, <1>17, Parties
  <2>2. CASE At(n) # b
    <3>1. ToPeers(b, o) \subseteq S
      BY Zenon
    <3> QED BY Zenon, <1>2, <1>5, <1>6, <2>1, <2>2, <3>1, PeersCovered
  <2>3. CASE At(n) = b /\ n \in Foreign
    <3>1. Registered(b, n)
      <4>1. Registered(Home[n], n)
        BY Zenon, <1>1, <2>1, <2>3 DEF CastTypes
      <4>2. Home[n] = b
        BY Zenon, <2>3, Parties
      <4> QED BY Zenon, <4>1, <4>2
    <3>2. ToForeign(b, o) \subseteq S
      BY Zenon
    <3> QED BY Zenon, <1>6, <2>1, <2>3, <3>1, <3>2, OwnCovered
  <2>4. CASE At(n) = b /\ n \in Hosts
    <3>1. L \subseteq S
      BY Zenon
    <3>2. Fan(S, b) /\ LocalCast("forwarded", b, b, o) \subseteq S
      BY Zenon, <1>6, <3>1
    <3> HIDE DEF S
    <3> QED BY <2>1, <2>4, <3>2, OwnCovered
  <2> QED BY Zenon, <1>17, <2>1, <2>2, <2>3, <2>4, Parties
<1>18. Spread(m, b, S)
  <2> HIDE DEF S
  <2> QED BY Zenon, <1>6, <1>11, <1>12, <1>14, <1>15, <1>16, <1>17 DEF Spread
<1> QED BY Zenon, <1>18, SpreadKeeps

\* A Forwarded-NPDU reaches a BBMD.
LEMMA ForwardedSpread ==
  ASSUME UniformMasks, CastInv, NEW m \in DOMAIN npdus, Deliver(m), cast # None,
         NEW b \in BBMDs, m.to = b, m.from # b, ~cast.confirmed, m.fn = "forwarded"
  PROVE  CastInv'
<1>v. PICK o : o = cast.src
  BY Zenon
<1>1. /\ FrameOf(m) /\ CastTypes
      /\ cast \in [src : Nodes, confirmed : BOOLEAN]
  BY Zenon DEF CastInv, Apart
<1>2. o \in Nodes
  BY <1>1, <1>v
<1>3. "forwarded" # "original" /\ "forwarded" # "distribute"
  OBVIOUS
<1>4. m.origin = o /\ m.from \in BBMDs /\ b # At(o)
  BY Zenon, <1>1, <1>3, <1>v DEF FrameOf
<1>5. o # b
  BY Zenon, <1>4, Parties
<1>6. isPeerOneHop(b, m.from) <=> oneHop(b)
  <2>1. bdt[b] = bdt[m.from]
    BY Zenon, <1>1, <1>4 DEF UniformMasks, CastTypes
  <2> QED BY Zenon, <1>4, <2>1 DEF isPeerOneHop, oneHop
<1> DEFINE L == IF oneHop(b) THEN LocalCast("forwarded", b, b, o) ELSE {}
<1> DEFINE P == ToForeign(b, o)
<1> DEFINE S == P \union L
<1>7. Fan(S, b)
  <2>1. S \subseteq ToPeers(b, o) \union ToForeign(b, o) \union LocalCast("forwarded", b, b, o)
    BY Zenon
  <2> HIDE DEF S
  <2> QED BY <2>1, SentFan
<1>8. HandleBVLC(b, m) =
        [deliver |-> TRUE, nak |-> FALSE,
         send |-> distribute(b, m.origin, FALSE)
                    (+) (IF isPeerOneHop(b, m.from)
                         THEN SetToBag(LocalCast("forwarded", b, b, m.origin))
                         ELSE EmptyBag)]
  BY <1>4, <1>5 DEF HandleBVLC
<1>9. SetToBag(P) (+) SetToBag(L) = SetToBag(S)
  <2>1. \A k \in P : k \notin L
    BY LocalApart
  <2> HIDE DEF L, P
  <2> QED BY Zenon, <2>1, BagJoin
<1>10. distribute(b, o, FALSE) = SetToBag(P)
  BY Zenon, DistributeBag
<1>11. HandleBVLC(b, m).deliver = TRUE /\ HandleBVLC(b, m).send = SetToBag(S)
  <2>1. /\ HandleBVLC(b, m).deliver = TRUE
        /\ HandleBVLC(b, m).send =
             distribute(b, m.origin, FALSE)
               (+) (IF isPeerOneHop(b, m.from)
                    THEN SetToBag(LocalCast("forwarded", b, b, m.origin))
                    ELSE EmptyBag)
    BY <1>8
  <2>2. SetToBag(L) = IF oneHop(b) THEN SetToBag(LocalCast("forwarded", b, b, o)) ELSE EmptyBag
    BY Zenon DEF EmptyBag
  <2>3. (IF isPeerOneHop(b, m.from)
         THEN SetToBag(LocalCast("forwarded", b, b, m.origin)) ELSE EmptyBag) = SetToBag(L)
    BY Zenon, <1>4, <1>6, <2>2
  <2> HIDE DEF L, P
  <2> QED BY Zenon, <1>4, <1>9, <1>10, <2>1, <2>3
<1>12. /\ npdus' = (npdus (-) SetToBag({m})) (+) HandleBVLC(m.to, m).send
       /\ got' = [got EXCEPT ![m.to] = @ + IF HandleBVLC(m.to, m).deliver THEN 1 ELSE 0]
       /\ UNCHANGED <<bdt, fdt, cast, whole, stayed>>
  BY Zenon DEF Deliver
<1>13. /\ npdus' = (npdus (-) SetToBag({m})) (+) SetToBag(S)
       /\ got' = [got EXCEPT ![b] = @ + 1]
  BY Zenon, <1>11, <1>12
<1>14. \A n : n \in Leads(m) <=> \/ n = b
                                 \/ n \in Foreign /\ At(n) = b
                                 \/ n \in Hosts /\ At(n) = b /\ oneHop(b)
  <2>1. Leads(m) = {b} \union Clients(b) \union {h \in Hosted(b) : oneHop(b)}
    BY Zenon, <1>3, <1>4 DEF Leads
  <2>2. \A n : /\ n \in Hosted(b) <=> n \in Hosts /\ At(n) = b
               /\ n \in Clients(b) <=> n \in Foreign /\ At(n) = b
    BY Zenon, Subnets
  <2> QED BY Zenon, <2>1, <2>2
<1>15. ASSUME NEW k \in S PROVE FrameOf(k)
  <2>1. k \in ToForeign(b, o) \/ k \in LocalCast("forwarded", b, b, o)
    BY Zenon
  <2> QED BY Zenon, <1>1, <1>v, <2>1, SentOf
<1>16. ASSUME NEW k \in S, NEW n \in Leads(k) PROVE n \in Leads(m)
  <2>1. /\ n \in Nodes
        /\ \/ n = k.to /\ (n \in Foreign => At(n) = b)
           \/ At(n) = k.to /\ k.to # b
    <3> HIDE DEF S
    <3>1. Leads(k) \subseteq Nodes
      BY Zenon, <1>7, FanLeads
    <3>2. n \in Nodes /\ n \in Leads(k)
      BY Zenon, <1>16, <3>1
    <3> QED BY Zenon, <1>7, <3>2, FanLeads
  <2>2. \/ k.to \in Foreign
        \/ k.to = b
        \/ k.to \in Hosts /\ At(k.to) = b /\ oneHop(b)
    <3>1. CASE k \in ToForeign(b, o)
      <4>1. PICK i \in Foreign : k = Frame("forwarded", b, i, o)
        BY Zenon, <3>1, ForeignSent
      <4>2. k.to = i
        BY <4>1, FrameFields
      <4> QED BY Zenon, <4>2
    <3>2. CASE oneHop(b) /\ k \in LocalCast("forwarded", b, b, o)
      <4>1. PICK i \in Nodes : k = Frame("forwarded", b, i, o) /\ i \notin Foreign /\ At(i) = b
        BY <3>2, LocalSent
      <4>2. k.to = i
        BY <4>1, FrameFields
      <4> QED BY Zenon, <3>2, <4>1, <4>2, Parties
    <3> QED BY Zenon, <3>1, <3>2
  <2>3. At(n) \in BBMDs
    BY Zenon, <2>1, AtBBMD
  <2> QED BY Zenon, <1>14, <2>1, <2>2, <2>3, Parties
<1>17. ASSUME NEW n \in BBMDs \union Hosts \union stayed, n \in Leads(m), n # b
       PROVE  \E k \in S : n \in Leads(k)
  <2>1. n \in Nodes /\ At(n) = b /\ n # o /\ (n \in Foreign => n \in stayed)
    BY Zenon, <1>4, <1>14, <1>17, Parties
  <2>2. CASE n \in Foreign
    <3>1. Registered(b, n)
      <4>1. Registered(Home[n], n)
        BY Zenon, <1>1, <2>1, <2>2 DEF CastTypes
      <4>2. Home[n] = b
        BY Zenon, <2>1, <2>2, Parties
      <4> QED BY Zenon, <4>1, <4>2
    <3>2. ToForeign(b, o) \subseteq S
      BY Zenon
    <3> HIDE DEF S
    <3> QED BY Zenon, <1>7, <2>1, <2>2, <3>1, <3>2, OwnCovered
  <2>3. CASE n \in Hosts /\ oneHop(b)
    <3>1. LocalCast("forwarded", b, b, o) \subseteq S
      BY Zenon, <2>3
    <3> HIDE DEF S
    <3> QED BY <1>7, <2>1, <2>3, <3>1, OwnCovered
  <2> QED BY Zenon, <1>14, <1>17, <2>1, <2>2, <2>3, Parties
<1>18. b \in Leads(m)
  BY Zenon, <1>14
<1>19. Spread(m, b, S)
  <2> HIDE DEF S
  <2> QED BY Zenon, <1>7, <1>12, <1>13, <1>15, <1>16, <1>17, <1>18 DEF Spread
<1> QED BY Zenon, <1>19, SpreadKeeps

\* A frame that the BBMD drops: its own, a confirmed request, or that of a device it does not know.
LEMMA DropKeeps ==
  ASSUME CastInv, NEW m \in DOMAIN npdus, Deliver(m), cast # None, NEW b \in BBMDs, m.to = b,
         \/ m.from = b
         \/ cast.confirmed
         \/ m.from # b /\ m.fn = "distribute" /\ ~Registered(b, m.from)
  PROVE  CastInv'
<1>1. FrameOf(m) /\ CastTypes
  BY Zenon DEF CastInv, Apart
<1>2. m.from # b => \/ m.fn = "original" /\ cast.confirmed
                    \/ m.fn = "distribute" /\ (~Registered(b, m.from) \/ cast.confirmed)
  <2>1. m.fn = "forwarded" => ~cast.confirmed /\ m.fn # "distribute"
    BY <1>1 DEF FrameOf
  <2> QED BY Zenon, <1>1, <2>1 DEF FrameOf
<1>3. HandleBVLC(b, m).send = EmptyBag /\ HandleBVLC(b, m).deliver = FALSE
  BY <1>2 DEF HandleBVLC, confirmedRequest
<1>4. /\ npdus' = (npdus (-) SetToBag({m})) (+) HandleBVLC(m.to, m).send
      /\ got' = [got EXCEPT ![m.to] = @ + IF HandleBVLC(m.to, m).deliver THEN 1 ELSE 0]
      /\ UNCHANGED <<bdt, fdt, cast, whole, stayed>>
  BY Zenon DEF Deliver
<1>5. got \in [Nodes -> {0, 1}] /\ b \in Nodes
  BY Zenon, <1>1, Parties DEF CastTypes
<1>6. got' = got
  <2>1. got[b] \in {0, 1} /\ got' = [got EXCEPT ![b] = @ + 0]
    BY Zenon, <1>3, <1>4, <1>5
  <2> QED BY <1>5, <2>1
<1> DEFINE S == {}
<1>7. Swapped(npdus, m, S, npdus')
  BY Zenon, <1>3, <1>4 DEF Swapped, EmptyBag
<1>8. \A k \in S : FALSE
  OBVIOUS
<1> HIDE DEF S
<1>9. ASSUME Taken, ~cast.confirmed, NEW n \in Leads(m) PROVE FALSE
  <2>1. m.from # b
    BY Zenon, <1>9 DEF Leads
  <2>2. "distribute" # "original" /\ "distribute" # "forwarded"
    OBVIOUS
  <2>3. m.fn = "distribute" /\ ~Registered(b, m.from)
    BY Zenon, <1>9, <2>1
  <2>4. m.from = cast.src /\ cast.src \in Foreign /\ b = Home[cast.src]
    BY Zenon, <1>1, <2>2, <2>3 DEF FrameOf
  <2>5. cast.src \in stayed
    BY Zenon, <1>9, <2>4 DEF Taken
  <2> QED BY Zenon, <1>1, <2>3, <2>4, <2>5 DEF CastTypes
<1>10. bdt' = bdt /\ fdt' = fdt /\ cast' = cast /\ stayed' = stayed /\ whole' = whole
  BY Zenon, <1>4
<1>11. Replaces(m, S)
  BY Zenon, <1>5, <1>6, <1>7, <1>8, <1>9, <1>10 DEF Replaces
<1> QED BY Zenon, <1>11, Passed

\* A frame arrives.
LEMMA DeliverKeeps ==
  ASSUME UniformMasks, CastInv, NEW m \in DOMAIN npdus, Deliver(m), cast # None
  PROVE  CastInv'
<1>1. CASE m.to \notin BBMDs
  BY Zenon, <1>1, NodeKeeps
<1>2. CASE m.to \in BBMDs
  <2>v. PICK b \in BBMDs : m.to = b
    BY Zenon, <1>2
  <2>1. CASE m.from = b \/ cast.confirmed
    BY Zenon, <2>v, <2>1, DropKeeps
  <2>2. CASE m.from # b /\ ~cast.confirmed
    <3>1. m.fn = "original" \/ m.fn = "distribute" \/ m.fn = "forwarded"
      BY Zenon DEF CastInv, Apart, FrameOf
    <3>2. CASE m.fn = "original"
      BY Zenon, <2>v, <2>2, <3>2, OriginalSpread
    <3>3. CASE m.fn = "forwarded"
      BY Zenon, <2>v, <2>2, <3>3, ForwardedSpread
    <3>4. CASE m.fn = "distribute"
      BY Zenon, <2>v, <2>2, <3>4, DistributeSpread, DropKeeps
    <3> QED BY Zenon, <3>1, <3>2, <3>3, <3>4
  <2> QED BY Zenon, <2>1, <2>2
<1> QED BY Zenon, <1>1, <1>2

(***************************************************************************)
(* A broadcast begins.                                                     *)
(***************************************************************************)
\* The state in which one just has, with the frames of S.
Fresh(src, c, S) ==
  /\ cast = [src |-> src, confirmed |-> c]
  /\ npdus = SetToBag(S)
  /\ got = [n \in Nodes |-> 0]
  /\ bdt \in Masks
  /\ stayed = {f \in Foreign : Registered(Home[f], f)}

\* Its frames lead to all, and to no node twice.
Fits(src, S) ==
  /\ \A k \in S : FrameOf(k) /\ src \notin Leads(k)
  /\ \A k, l \in S : k # l => Leads(k) \cap Leads(l) = {}
  /\ cast.confirmed => src \notin BBMDs
  /\ ~cast.confirmed /\ Taken =>
       \A n \in (BBMDs \union Hosts \union stayed) \ {src} : \E k \in S : n \in Leads(k)

\* That is the invariant.
LEMMA FreshFits ==
  ASSUME NEW src \in Nodes, NEW c \in BOOLEAN, NEW S, Fresh(src, c, S), Fits(src, S)
  PROVE  CastInv
<1>1. /\ cast = [src |-> src, confirmed |-> c]
      /\ npdus = SetToBag(S)
      /\ got = [n \in Nodes |-> 0]
      /\ bdt \in Masks
      /\ stayed = {f \in Foreign : Registered(Home[f], f)}
  BY Zenon DEF Fresh
<1>2. cast # None
  BY Zenon, <1>1, MeshAssumption DEF Nodes
<1>3. cast \in [src : Nodes, confirmed : BOOLEAN] /\ cast.src = src
  BY <1>1
<1>4. DOMAIN npdus = S /\ \A k \in S : npdus[k] = 1
  BY <1>1 DEF SetToBag
<1>5. npdus \in [DOMAIN npdus -> Nat \ {0}]
  BY <1>1 DEF SetToBag
<1>6. \A n \in Nodes : got[n] = 0
  BY Zenon, <1>1
<1>7. got \in [Nodes -> {0, 1}]
  BY <1>1
<1>8. CastTypes
  BY Zenon, <1>1, <1>5, <1>7 DEF CastTypes
<1>9. \A k \in S : Leads(k) \subseteq Nodes
  <2> SUFFICES ASSUME NEW k \in S, NEW n \in Leads(k) PROVE n \in Nodes
    BY Zenon
  <2>1. k.to \in Nodes
    BY Zenon DEF Fits, FrameOf
  <2>2. \/ n = k.to \/ n \in Nodes \/ n \in Clients(k.to) \/ n \in Hosted(k.to)
    BY Zenon DEF Leads
  <2> QED BY Zenon, <2>1, <2>2 DEF Nodes, Clients, Hosted
<1>10. Apart
  BY Zenon, <1>3, <1>4, <1>6, <1>9 DEF Fits, Apart
<1>11. Kept
  BY Zenon, <1>3, <1>6 DEF Fits, Kept
<1>12. Everyone
  BY Zenon, <1>3, <1>4 DEF Fits, Everyone, Led
<1>13. got[cast.src] = 0
  BY Zenon, <1>3, <1>6
<1> QED BY Zenon, <1>2, <1>3, <1>8, <1>10, <1>11, <1>12, <1>13 DEF CastInv, Idle

\* A host begins.
HostStarts ==
  \A h \in Hosts, c \in BOOLEAN :
    Fresh(h, c, LocalCast("original", h, SubnetOf[h], h)) => CastInv

\* That is so.
LEMMA HostFresh == HostStarts
<1> SUFFICES ASSUME NEW h \in Hosts, NEW c \in BOOLEAN,
                    Fresh(h, c, LocalCast("original", h, SubnetOf[h], h))
             PROVE  CastInv
  BY Zenon DEF HostStarts
<1>v. PICK b \in BBMDs : b = SubnetOf[h]
  BY Zenon, Parties
<1>w. PICK S : S = LocalCast("original", h, b, h)
  BY Zenon
<1>1. h \in Nodes /\ h \notin Foreign /\ h \notin BBMDs /\ At(h) = b
  BY Zenon, <1>v, Parties
<1>2. Fresh(h, c, S)
  BY Zenon, <1>v, <1>w
<1>3. cast.src = h
  BY <1>2 DEF Fresh
<1>4. \A k : k \in S <=> \E n \in Member(b) : n # h /\ k = Frame("original", h, n, h)
  BY Zenon, <1>w DEF LocalCast
<1>5. \A n \in Member(b) : n # h => Frame("original", h, n, h) \in S
  BY Zenon, <1>4
<1>6. \A k \in S : /\ k.to \in Member(b) /\ k.to # h /\ k = Frame("original", h, k.to, h)
                   /\ k.fn = "original" /\ k.from = h /\ k.origin = h
  BY <1>4, FrameFields
<1>7. \A n : /\ n \in Member(b) <=> n \in Nodes /\ n \notin Foreign /\ At(n) = b
             /\ n \in Hosted(b) <=> n \in Hosts /\ At(n) = b
  BY Zenon, Subnets
<1>8. \A k \in S : FrameOf(k)
  BY Zenon, <1>1, <1>3, <1>6, <1>7 DEF FrameOf
<1>9. \A k \in S : k.to = b => \A n : n \in Leads(k) => n \in Nodes /\ n \notin Hosted(b)
  BY Zenon, <1>6 DEF Leads
<1>10. \A k \in S : k.to = b /\ ~cast.confirmed => \A n \in Nodes : n \notin Hosted(b) => n \in Leads(k)
  BY Zenon, <1>1, <1>6 DEF Leads
<1>11. \A k \in S : k.to # b => k.to \in Hosts /\ k.to \notin BBMDs
  BY Zenon, <1>6, <1>7, Parties
<1>12. \A k \in S : k.to # b => \A n : n \in Leads(k) <=> n = k.to
  BY Zenon, <1>11 DEF Leads, takes
<1>13. \A k \in S : h \notin Leads(k)
  BY Zenon, <1>1, <1>6, <1>7, <1>9, <1>12
<1>14. ASSUME NEW k \in S, NEW l \in S, k # l, NEW n \in Leads(k), n \in Leads(l) PROVE FALSE
  <2>1. k.to # l.to
    BY Zenon, <1>6, <1>14
  <2>2. k.to \in Hosts => k.to \in Hosted(b)
    BY Zenon, <1>6, <1>7
  <2>3. l.to \in Hosts => l.to \in Hosted(b)
    BY Zenon, <1>6, <1>7
  <2> QED BY Zenon, <1>9, <1>11, <1>12, <1>14, <2>1, <2>2, <2>3
<1>15. ASSUME ~cast.confirmed, NEW n \in Nodes, n # h PROVE \E k \in S : n \in Leads(k)
  <2>1. CASE n \in Hosted(b)
    <3>1. n \in Member(b) /\ n # b
      BY Zenon, <1>7, <2>1, Parties
    <3>2. PICK k \in S : k = Frame("original", h, n, h)
      BY Zenon, <1>5, <1>15, <3>1
    <3>3. k.to = n
      BY <3>2, FrameFields
    <3> QED BY Zenon, <1>12, <3>1, <3>3
  <2>2. CASE n \notin Hosted(b)
    <3>1. b \in Member(b) /\ b # h
      BY Zenon, <1>1 DEF Member
    <3>2. PICK k \in S : k = Frame("original", h, b, h)
      BY Zenon, <1>5, <3>1
    <3>3. k.to = b
      BY <3>2, FrameFields
    <3> QED BY Zenon, <1>10, <1>15, <2>2, <3>3
  <2> QED BY Zenon, <2>1, <2>2
<1>16. stayed \subseteq Foreign
  BY Zenon, <1>2 DEF Fresh
<1>17. Fits(h, S)
  BY Zenon, <1>1, <1>8, <1>13, <1>14, <1>15, <1>16, Parties DEF Fits
<1> QED BY Zenon, <1>1, <1>2, <1>17, FreshFits

\* The server beside a BBMD begins.
ServerStarts ==
  \A b \in BBMDs :
    Fresh(b, FALSE, ToPeers(b, b) \union ToForeign(b, b) \union LocalCast("original", b, b, b)) => CastInv

\* That is so.
LEMMA ServerFresh == ServerStarts
<1> SUFFICES ASSUME NEW b \in BBMDs,
                    Fresh(b, FALSE, ToPeers(b, b) \union ToForeign(b, b)
                                      \union LocalCast("original", b, b, b))
             PROVE  CastInv
  BY Zenon DEF ServerStarts
<1>w. PICK S : S = ToPeers(b, b) \union ToForeign(b, b) \union LocalCast("original", b, b, b)
  BY Zenon
<1>1. b \in Nodes /\ b \notin Foreign /\ b \notin Hosts /\ At(b) = b
  BY Zenon, Parties
<1>2. Fresh(b, FALSE, S)
  BY Zenon, <1>w
<1>3. cast.src = b /\ ~cast.confirmed /\ cast \in [src : Nodes, confirmed : BOOLEAN]
  BY <1>1, <1>2 DEF Fresh
<1>4. cast # None
  BY Zenon, <1>2, MeshAssumption DEF Fresh
<1>5. Fan(S, b)
  BY <1>w, SentFan
<1>6. ASSUME NEW k \in S PROVE FrameOf(k)
  <2>1. CASE k \in ToPeers(b, b) \/ k \in ToForeign(b, b)
    BY Zenon, <1>1, <1>3, <1>4, <2>1, SentOf
  <2>2. CASE k \in LocalCast("original", b, b, b)
    <3>1. PICK n \in Member(b) : k = Frame("original", b, n, b)
      BY Zenon, <2>2 DEF LocalCast
    <3>2. k.fn = "original" /\ k.from = b /\ k.origin = b /\ k.to = n
      BY <3>1, FrameFields
    <3>3. n \in Nodes
      BY Zenon, Subnets
    <3> QED BY Zenon, <1>1, <1>3, <3>2, <3>3 DEF FrameOf
  <2> QED BY Zenon, <1>w, <2>1, <2>2
<1>7. ASSUME NEW k \in S PROVE b \notin Leads(k)
  <2>1. b \in Leads(k) <=> \/ b = k.to /\ b # b /\ (b \in Foreign => At(b) = b)
                           \/ b # k.to /\ At(b) = k.to /\ k.to # b /\ (b \in Hosts => oneHop(At(b)))
    BY Zenon, <1>1, <1>3, <1>5, FanLeads
  <2> QED BY Zenon, <1>1, <2>1
<1>8. \A k, l \in S : k # l => Leads(k) \cap Leads(l) = {}
  BY Zenon, <1>3, <1>5, FanApart
<1>9. ASSUME NEW n \in (BBMDs \union Hosts \union stayed) \ {b} PROVE \E k \in S : n \in Leads(k)
  <2>1. n \in Nodes /\ n # b /\ (n \in Foreign => Registered(Home[n], n))
    BY Zenon, <1>2, <1>9, Parties DEF Fresh
  <2>2. CASE At(n) # b
    <3>1. ToPeers(b, b) \subseteq S
      BY Zenon, <1>w
    <3> QED BY Zenon, <1>1, <1>3, <1>5, <2>1, <2>2, <3>1, PeersCovered
  <2>3. CASE At(n) = b /\ n \in Foreign
    <3>1. ToForeign(b, b) \subseteq S
      BY Zenon, <1>w
    <3>2. Registered(b, n)
      BY Zenon, <2>1, <2>3, Parties
    <3> QED BY Zenon, <1>3, <1>5, <2>1, <2>3, <3>1, <3>2, OwnCovered
  <2>4. CASE At(n) = b /\ n \in Hosts
    <3>1. LocalCast("original", b, b, b) \subseteq S
      BY Zenon, <1>w
    <3> QED BY <1>3, <1>5, <2>1, <2>4, <3>1, OwnCovered
  <2> QED BY Zenon, <2>1, <2>2, <2>3, <2>4, Parties
<1>10. Fits(b, S)
  BY Zenon, <1>3, <1>6, <1>7, <1>8, <1>9 DEF Fits
<1> QED BY Zenon, <1>1, <1>2, <1>10, FreshFits

\* A foreign device begins, through its BBMD or on its own subnet.
ForeignStarts ==
  \A f \in Foreign, c \in BOOLEAN :
    /\ Fresh(f, c, {Frame("distribute", f, Home[f], f)}) => CastInv
    /\ Fresh(f, c, {}) => CastInv

\* That is so.
LEMMA ForeignFresh == ForeignStarts
<1> SUFFICES ASSUME NEW f \in Foreign, NEW c \in BOOLEAN
             PROVE  /\ Fresh(f, c, {Frame("distribute", f, Home[f], f)}) => CastInv
                    /\ Fresh(f, c, {}) => CastInv
  BY Zenon DEF ForeignStarts
<1>1. f \in Nodes /\ f \notin BBMDs /\ f \notin Hosts /\ Home[f] \in BBMDs /\ Home[f] \in Nodes /\ Home[f] # f
  BY Zenon, Parties
<1>2. ASSUME NEW S, Fresh(f, c, S) PROVE /\ cast.src = f
                                         /\ npdus = SetToBag(S)
                                         /\ \A n \in Nodes : got[n] = 0
                                         /\ stayed \subseteq Foreign
  BY <1>2 DEF Fresh
<1>3. ASSUME Fresh(f, c, {Frame("distribute", f, Home[f], f)}) PROVE CastInv
  <2>v. PICK m : m = Frame("distribute", f, Home[f], f)
    BY Zenon
  <2>w. PICK S : S = {m}
    BY Zenon
  <2>0. Fresh(f, c, S)
    BY Zenon, <1>3, <2>v, <2>w
  <2>1. m.fn = "distribute" /\ m.from = f /\ m.to = Home[f] /\ m.origin = f /\ "distribute" # "original"
    BY <2>v, FrameFields
  <2>2. cast.src = f /\ stayed \subseteq Foreign
    BY Zenon, <1>2, <2>0
  <2>3. FrameOf(m)
    BY Zenon, <1>1, <2>1, <2>2 DEF FrameOf
  <2>4. Leads(m) = IF cast.confirmed THEN {} ELSE Nodes \ {f}
    BY Zenon, <1>1, <2>1 DEF Leads
  <2>5. Fits(f, S)
    BY Zenon, <1>1, <2>2, <2>3, <2>4, <2>w DEF Fits, Nodes
  <2> QED BY Zenon, <1>1, <2>0, <2>5, FreshFits
<1>4. ASSUME Fresh(f, c, {}) PROVE CastInv
  <2>w. PICK S : S = {}
    BY Zenon
  <2>0. Fresh(f, c, S)
    BY Zenon, <1>4, <2>w
  <2>1. cast.src = f /\ npdus = SetToBag(S) /\ \A n \in Nodes : got[n] = 0
    BY Zenon, <1>2, <2>0
  <2>2. ~Taken
    BY Zenon, <2>1, <2>w DEF Taken, EmptyBag
  <2>3. Fits(f, S)
    BY Zenon, <1>1, <2>2, <2>w DEF Fits
  <2> QED BY Zenon, <1>1, <2>0, <2>3, FreshFits
<1> QED BY Zenon, <1>3, <1>4

\* It is so in the next state as well.
LEMMA StartsNext == HostStarts' /\ ServerStarts' /\ ForeignStarts'
BY HostFresh, ServerFresh, ForeignFresh, PTL

\* What Begin sets up.
LEMMA BeginFresh ==
  ASSUME CastInv, NEW src, NEW c, NEW S, Begin(src, c, SetToBag(S))
  PROVE  Fresh(src, c, S)'
<1>1. /\ cast = None /\ cast' = [src |-> src, confirmed |-> c] /\ npdus' = SetToBag(S)
      /\ stayed' = {f \in Foreign : Registered(Home[f], f)}
      /\ bdt' = bdt /\ fdt' = fdt /\ got' = got
  BY Zenon DEF Begin
<1>2. got = [n \in Nodes |-> 0] /\ bdt \in Masks
  BY Zenon, <1>1 DEF CastInv, Idle, CastTypes
<1>3. \A f : Registered(Home[f], f)' = Registered(Home[f], f)
  BY Zenon, <1>1 DEF Registered
<1>4. {f \in Foreign : Registered(Home[f], f)'} = {f \in Foreign : Registered(Home[f], f)}
  BY Zenon, <1>3
<1> QED BY Zenon, <1>1, <1>2, <1>4 DEF Fresh

\* A broadcast begins.
LEMMA BeginKeeps ==
  ASSUME CastInv,
         \/ \E h \in Hosts, c \in BOOLEAN : HostBroadcast(h, c)
         \/ \E b \in BBMDs : ServerBroadcast(b)
         \/ \E f \in Foreign, c \in BOOLEAN : ForeignBroadcast(f, c)
  PROVE  CastInv'
<1>1. CASE \E h \in Hosts, c \in BOOLEAN : HostBroadcast(h, c)
  <2>1. PICK h \in Hosts, c \in BOOLEAN : HostBroadcast(h, c)
    BY Zenon, <1>1
  <2>v. PICK S : S = LocalCast("original", h, SubnetOf[h], h)
    BY Zenon
  <2>2. Begin(h, c, SetToBag(S))
    BY Zenon, <2>1, <2>v DEF HostBroadcast
  <2>3. Fresh(h, c, S)'
    BY Zenon, <2>2, BeginFresh
  <2>4. (\A i \in Hosts, d \in BOOLEAN :
           Fresh(i, d, LocalCast("original", i, SubnetOf[i], i)) => CastInv)'
    BY Zenon, StartsNext DEF HostStarts
  <2> QED BY Zenon, <2>3, <2>4, <2>v DEF LocalCast, Member, Frame
<1>2. CASE \E b \in BBMDs : ServerBroadcast(b)
  <2>1. PICK b \in BBMDs : ServerBroadcast(b)
    BY Zenon, <1>2
  <2>v. PICK P : P = ToPeers(b, b) \union ToForeign(b, b)
    BY Zenon
  <2>l. PICK L : L = LocalCast("original", b, b, b)
    BY Zenon
  <2>w. PICK S : S = P \union L
    BY Zenon
  <2>2. \A k \in P : k \notin L
    BY <2>v, <2>l, LocalApart
  <2>3. SetToBag(P) (+) SetToBag(L) = SetToBag(S)
    BY Zenon, <2>2, <2>w, BagJoin
  <2>4. distribute(b, b, TRUE) = SetToBag(P)
    BY Zenon, <2>v, DistributeBag
  <2>5. Begin(b, FALSE, SetToBag(S))
    BY Zenon, <2>1, <2>3, <2>4, <2>l DEF ServerBroadcast
  <2>6. Fresh(b, FALSE, S)'
    BY Zenon, <2>5, BeginFresh
  <2>7. (\A i \in BBMDs :
           Fresh(i, FALSE, ToPeers(i, i) \union ToForeign(i, i) \union LocalCast("original", i, i, i))
             => CastInv)'
    BY Zenon, StartsNext DEF ServerStarts
  <2>8. bdt' = bdt /\ fdt' = fdt
    BY Zenon, <2>5 DEF Begin
  <2>9. ToPeers(b, b)' = ToPeers(b, b)
    BY Zenon, <2>8 DEF ToPeers, forwardAddress, Peers, oneHop
  <2>10. ToForeign(b, b)' = ToForeign(b, b)
    BY Zenon, <2>8 DEF ToForeign, FDT, Registered
  <2>11. S = (ToPeers(b, b) \union ToForeign(b, b) \union LocalCast("original", b, b, b))'
    BY Zenon, <2>9, <2>10, <2>v, <2>l, <2>w
  <2> QED BY Zenon, <2>6, <2>7, <2>11
<1>3. CASE \E f \in Foreign, c \in BOOLEAN : ForeignBroadcast(f, c)
  <2>1. PICK f \in Foreign, c \in BOOLEAN : ForeignBroadcast(f, c)
    BY Zenon, <1>3
  <2>v. PICK S : S = IF reg[f] THEN {Frame("distribute", f, Home[f], f)} ELSE {}
    BY Zenon
  <2>2. Begin(f, c, SetToBag(S))
    BY Zenon, <2>1, <2>v DEF ForeignBroadcast, EmptyBag
  <2>3. Fresh(f, c, S)'
    BY Zenon, <2>2, BeginFresh
  <2>4. (\A i \in Foreign, d \in BOOLEAN :
           /\ Fresh(i, d, {Frame("distribute", i, Home[i], i)}) => CastInv
           /\ Fresh(i, d, {}) => CastInv)'
    BY Zenon, StartsNext DEF ForeignStarts
  <2> QED BY Zenon, <2>3, <2>4, <2>v
<1> QED BY Zenon, <1>1, <1>2, <1>3

\* A step that only takes devices out of the tables.
LEMMA QuietKeeps ==
  ASSUME CastInv, UNCHANGED <<bdt, npdus, cast, got, whole>>, stayed' \subseteq stayed,
         \A f \in stayed' : Registered(Home[f], f)'
  PROVE  CastInv'
<1>1. bdt' = bdt /\ npdus' = npdus /\ cast' = cast /\ got' = got /\ whole' = whole
  BY Zenon
<1>2. \A k : Leads(k)' = Leads(k) /\ FrameOf(k)' = FrameOf(k)
  BY Zenon, <1>1, LeadsSame
<1>3. CastTypes'
  BY Zenon, <1>1 DEF CastInv, CastTypes
<1>4. Idle'
  <2>1. Idle
    BY Zenon DEF CastInv
  <2> QED BY <1>1, <2>1 DEF Idle
<1>5. ASSUME cast # None PROVE Apart' /\ Kept' /\ Everyone'
  <2>1. Apart'
    BY Zenon, <1>1, <1>2, <1>5 DEF CastInv, Apart
  <2>2. Kept'
    BY Zenon, <1>1, <1>5 DEF CastInv, Kept
  <2>3. Taken' => Taken
    BY Zenon, <1>1 DEF Taken
  <2>4. Everyone
    BY Zenon, <1>5 DEF CastInv
  <2>5. \A n : Led(n) => Led(n)'
    BY Zenon, <1>1, <1>2 DEF Led
  <2>6. Everyone'
    <3> SUFFICES ASSUME whole', ~cast'.confirmed, Taken',
                        NEW n \in (BBMDs \union Hosts \union stayed') \ {cast'.src}
                 PROVE  Led(n)'
      BY Zenon DEF Everyone
    <3>1. whole /\ ~cast.confirmed /\ Taken /\ n \in (BBMDs \union Hosts \union stayed) \ {cast.src}
      BY <1>1, <2>3
    <3> QED BY Zenon, <2>4, <2>5, <3>1 DEF Everyone
  <2> QED BY Zenon, <2>1, <2>2, <2>6
<1> QED BY Zenon, <1>1, <1>3, <1>4, <1>5 DEF CastInv

\* The devices that stayed are registered.
LEMMA StayedKnown ==
  ASSUME CastInv, DeviceTypes, NEW f \in stayed
  PROVE  f \in Foreign /\ Home[f] \in BBMDs /\ fdt[Home[f]][f] > 0 /\ fdt[Home[f]][f] \in Nat
<1>1. f \in Foreign /\ Registered(Home[f], f)
  BY Zenon DEF CastInv, CastTypes
<1>2. Home[f] \in BBMDs
  BY Zenon, <1>1, MeshAssumption
<1> QED BY Zenon, <1>1, <1>2 DEF Registered, DeviceTypes

\* A management frame reaches a BBMD.
LEMMA ManagedCast ==
  ASSUME CastInv, RegInv, NEW m \in ctl, Manage(m)
  PROVE  CastInv'
<1>0. DeviceTypes /\ ManagementFrames /\ fdt \in [BBMDs -> [Foreign -> Nat]]
  BY Zenon DEF RegInv, DeviceTypes
<1>v. PICK b \in BBMDs : b = m.to
  BY Zenon DEF Manage
<1>w. UNCHANGED <<bdt, npdus, cast, got, whole>>
  BY Zenon DEF Manage
<1>1. CASE m.fn = "register" /\ register(b, m)
  <2>1. stayed' = stayed
    BY Zenon, <1>1 DEF register
  <2>2. CASE fdt' = fdt
    BY Zenon, <1>w, <2>1, <2>2, QuietKeeps DEF CastInv, CastTypes, Registered
  <2>3. CASE fdt' = [fdt EXCEPT ![b][m.from] = TTL + Grace]
    <3>1. m.from \in Foreign /\ TTL + Grace > 0
      BY <1>0, <1>1, TimingAssumption DEF ManagementFrames
    <3>2. ASSUME NEW f \in stayed PROVE fdt'[Home[f]][f] > 0
      <4>v. PICK g : g = m.from
        BY Zenon
      <4>w. PICK t : t = TTL + Grace
        BY Zenon
      <4>1. f \in Foreign /\ Home[f] \in BBMDs /\ fdt[Home[f]][f] > 0
        BY Zenon, <1>0, StayedKnown
      <4>2. fdt' = [fdt EXCEPT ![b][g] = t] /\ t > 0
        BY Zenon, <2>3, <3>1, <4>v, <4>w
      <4>3. fdt'[Home[f]][f] = fdt[Home[f]][f] \/ fdt'[Home[f]][f] = t
        BY <1>0, <4>1, <4>2
      <4> QED BY Zenon, <4>1, <4>2, <4>3
    <3> QED BY Zenon, <1>w, <2>1, <3>2, QuietKeeps DEF Registered
  <2> QED BY Zenon, <1>1, <2>2, <2>3 DEF register
<1>2. CASE m.fn = "delete" /\ delete(b, m)
  <2>v. PICK e : e = m.entry
    BY Zenon
  <2>1. fdt' = [fdt EXCEPT ![b][e] = 0]
    BY Zenon, <1>2, <2>v DEF delete
  <2>2. stayed' = IF Registered(b, e) THEN stayed \ {e} ELSE stayed
    BY Zenon, <1>2, <2>v DEF delete
  <2>3. ASSUME NEW f \in stayed' PROVE fdt'[Home[f]][f] > 0
    <3>1. f \in stayed
      BY Zenon, <2>2
    <3>2. f \in Foreign /\ Home[f] \in BBMDs /\ fdt[Home[f]][f] > 0
      BY Zenon, <1>0, <3>1, StayedKnown
    <3>3. ~(Home[f] = b /\ f = e)
      BY Zenon, <2>2, <2>3, <3>1, <3>2 DEF Registered
    <3>4. fdt'[Home[f]][f] = fdt[Home[f]][f]
      BY <1>0, <2>1, <3>2, <3>3
    <3> QED BY Zenon, <3>2, <3>4
  <2>4. stayed' \subseteq stayed
    BY Zenon, <2>2
  <2> QED BY Zenon, <1>w, <2>3, <2>4, QuietKeeps DEF Registered
<1>3. CASE m.fn = "read" /\ readTable(b, m)
  <2>1. fdt' = fdt /\ stayed' = stayed
    BY Zenon, <1>3 DEF readTable
  <2> QED BY Zenon, <1>w, <2>1, QuietKeeps DEF CastInv, CastTypes, Registered
<1> QED BY Zenon, <1>1, <1>2, <1>3, <1>v DEF Manage

\* The step of the broadcast under way, whatever it is.
LEMMA CastStep ==
  ASSUME UniformMasks, RegInv, CastInv, [MeshNext]_meshVars
  PROVE  CastInv'
<1>0. DOMAIN EmptyBag = {}
  BY DEF EmptyBag, SetToBag
<1>1. CASE UNCHANGED <<bdt, npdus, cast, got, whole, fdt, stayed>>
  BY Zenon, <1>1, QuietKeeps DEF CastInv, CastTypes, Registered
<1>2. CASE UNCHANGED meshVars
  BY Zenon, <1>1, <1>2 DEF meshVars, bbmdVars
<1>3. ASSUME NEW m \in BagToSet(npdus), Deliver(m) \/ Lose(m) PROVE CastInv'
  <2>1. m \in DOMAIN npdus
    BY Zenon DEF BagToSet
  <2>2. cast # None
    BY Zenon, <1>0, <2>1 DEF CastInv, Idle
  <2> QED BY Zenon, <1>3, <2>1, <2>2, DeliverKeeps, LoseKeeps
<1>4. CASE Settle
  <2>1. /\ npdus = EmptyBag /\ cast' = None /\ got' = [n \in Nodes |-> 0] /\ whole' = TRUE
        /\ stayed' = {} /\ bdt' = bdt /\ npdus' = npdus
    BY Zenon, <1>4 DEF Settle, Arrived
  <2>2. got' \in [Nodes -> {0, 1}]
    BY <2>1
  <2>3. CastTypes'
    BY Zenon, <2>1, <2>2 DEF CastInv, CastTypes
  <2> QED BY Zenon, <2>1, <2>3 DEF CastInv, Idle
<1>5. CASE Tick
  <2>1. /\ UNCHANGED <<bdt, npdus, cast, got, whole>>
        /\ stayed' = {f \in stayed : fdt'[Home[f]][f] > 0}
    BY Zenon, <1>5 DEF Tick, Age
  <2> QED BY Zenon, <2>1, QuietKeeps DEF Registered
<1>6. CASE \E m \in ctl : handleBVLCManagement(m)
  BY Zenon, <1>1, <1>6 DEF handleBVLCManagement, castVars
<1>7. CASE \E f \in Foreign : BeginAttempt(f) \/ EndAttempt(f) \/ Renew(f) \/ Stop(f)
  BY Zenon, <1>1, <1>7 DEF BeginAttempt, EndAttempt, Renew, Stop, castVars, bbmdVars
<1>8. CASE \E f \in Foreign, k \in {"read", "delete"} : Exchange(f, k)
  BY Zenon, <1>1, <1>8 DEF Exchange, castVars
<1>9. CASE \E f \in Foreign : EndExchange(f)
  BY Zenon, <1>1, <1>9 DEF EndExchange, bbmdVars
<1> QED
  BY Zenon, <1>2, <1>3, <1>4, <1>5, <1>6, <1>7, <1>8, <1>9, BeginKeeps, ManagedCast DEF MeshNext

\* The invariant implies the property the run checks.
LEMMA CastParts == CastInv => DeliveredOnce
<1> SUFFICES ASSUME CastInv PROVE DeliveredOnce
  OBVIOUS
<1>1. \A n \in Nodes : got[n] \in {0, 1}
  BY Zenon DEF CastInv, CastTypes
<1>2. \A n \in Nodes : got[n] <= 1 /\ (got[n] > 0 <=> got[n] # 0)
  BY <1>1
<1>3. cast # None => got[cast.src] = 0
  BY Zenon DEF CastInv
<1>4. ASSUME cast # None, cast.confirmed, NEW n \in Nodes, got[n] > 0
      PROVE  n \in Hosts /\ cast.src \in Hosts /\ SubnetOf[n] = SubnetOf[cast.src]
  BY Zenon, <1>2, <1>4 DEF CastInv, Kept
<1>5. ASSUME Arrived, whole, ~cast.confirmed,
             cast.src \in Foreign => cast.src \in stayed /\ \E n \in Nodes : got[n] > 0,
             NEW n \in (BBMDs \union Hosts \union stayed) \ {cast.src}
      PROVE  got[n] = 1
  <2>1. DOMAIN npdus = {}
    BY <1>5 DEF Arrived, EmptyBag, SetToBag
  <2>2. Taken
    BY Zenon, <1>2, <1>5 DEF Taken
  <2>3. Led(n)
    BY Zenon, <1>5, <2>2 DEF CastInv, Everyone, Arrived
  <2> QED BY Zenon, <2>1, <2>3 DEF Led
<1> QED BY Zenon, <1>2, <1>3, <1>4, <1>5 DEF DeliveredOnce

\* Nothing is under way at first.
LEMMA CastStart == MeshInit => CastInv
<1> SUFFICES ASSUME MeshInit PROVE CastInv
  OBVIOUS
<1>1. bdt \in Masks /\ npdus = EmptyBag /\ cast = None /\ got = [n \in Nodes |-> 0] /\ whole = TRUE /\ stayed = {}
  BY Zenon DEF MeshInit, BbmdInit
<1>2. npdus \in [DOMAIN npdus -> Nat \ {0}] /\ got \in [Nodes -> {0, 1}]
  BY <1>1 DEF EmptyBag, SetToBag
<1> QED BY Zenon, <1>1, <1>2 DEF CastInv, CastTypes, Idle

\* A broadcast is taken at most once by every node and never by its sender, and by all of them when
\* no frame of it is lost; a confirmed request stays on its subnet: for any number of subnets, hosts
\* and foreign devices, whatever the order in which frames arrive and registrations come and go,
\* when every entry of the table has the same kind of mask.
THEOREM BroadcastsAreDeliveredOnce ==
  ASSUME UniformMasks
  PROVE  MeshSpec => []DeliveredOnce
<1>1. MeshSpec => []RegInv
  BY RegStart, RegStep, PTL DEF MeshSpec
<1>2. RegInv /\ CastInv /\ [MeshNext]_meshVars => CastInv'
  BY CastStep
<1> QED BY <1>1, <1>2, CastStart, CastParts, PTL DEF MeshSpec
==============================================================================
