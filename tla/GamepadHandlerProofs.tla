------------------------- MODULE GamepadHandlerProofs -------------------------
(***************************************************************************)
(* Proofs about GamepadHandler, for all buttons.  On core 0 alone,         *)
(* callbacks can interrupt the main loop and not the reverse, which is why *)
(* a latch tested and set in two steps keeps it to one handler at a time;  *)
(* with one handler, each press is backed by a write not yet handled.      *)
(***************************************************************************)
EXTENDS GamepadHandler, TLAPS

\* No context runs on core 1.
CoreZero == Contexts \subseteq {"bluetooth", "uart"}

LatchInv ==
  /\ \A c \in Contexts : Inside(c) => ~finished_processing
  /\ "bluetooth" \in Contexts /\ "uart" \in Contexts =>
       ~(phase["bluetooth"] \in {"tested", "inside", "handling", "leaving"} /\ Inside("uart"))

\* A button that differs was written since it was last handled so.
WrittenInv ==
  \A b \in Edges : but[b] # 0 /\ but[b] # latch[b] => <<b, but[b]>> \in fresh

\* The value read and the one that may be read again were written.
HandlingInv ==
  \A c \in Contexts : phase[c] = "handling" =>
    /\ seen[c] # 0 => <<edge[c], seen[c]>> \in fresh
    /\ but[edge[c]] # 0 => <<edge[c], but[edge[c]]>> \in fresh

CreditInv == WrittenInv /\ HandlingInv

IInv == TypeOK /\ LatchInv /\ CreditInv

LEMMA LevelsType ==
  /\ 0 \in Levels /\ 1 \in Levels
  /\ \A b \in Buttons : Held(b) \in Levels
  /\ Edges \subseteq Buttons
  /\ Released \in [Buttons -> Levels]
  /\ None \notin Edges
<1>1. 0 \in Levels /\ 1 \in Levels
  BY DEF Levels
<1>2. \A b \in Buttons : Held(b) \in Levels
  BY DEF Levels, Held
<1>3. Edges \subseteq Buttons /\ Released \in [Buttons -> Levels]
  BY <1>1 DEF Edges, Released
<1>4. None \notin Edges
  <2>1. Len(Order) = 14
    BY DEF Order
  <2>2. \A i \in 1 .. 14 : Order[i] # None
    BY DEF Order, None
  <2>3. QED
    BY <2>1, <2>2, ButtonsAssumption DEF Edges
<1>5. QED
  BY <1>1, <1>2, <1>3, <1>4

LEMMA PutType ==
  ASSUME NEW f \in [Buttons -> Levels], NEW S, NEW v \in {0, 1}
  PROVE  Put(f, S, v) \in [Buttons -> Levels]
BY DEF Put, Levels

\* Writing buttons leaves every difference it makes in fresh.
LEMMA WriteKeeps ==
  ASSUME TypeOK, CreditInv, NEW b \in [Buttons -> Levels], NEW l \in [Buttons -> Levels],
         Write(b, l)
  PROVE  /\ but' \in [Buttons -> Levels] /\ latch' \in [Buttons -> Levels]
         /\ fresh' \subseteq Edges \X Levels /\ fresh \subseteq fresh'
         /\ \A e \in Edges : but'[e] # 0 /\ but'[e] # but[e] => <<e, but'[e]>> \in fresh'
         /\ WrittenInv'
<1>1. Edges \subseteq Buttons
  BY DEF Edges
<1>2. /\ but' \in [Buttons -> Levels] /\ latch' \in [Buttons -> Levels]
      /\ fresh \subseteq fresh'
  BY DEF Write
<1>3. fresh' \subseteq Edges \X Levels
  BY <1>1 DEF Write, TypeOK
<1>4. \A e \in Edges : b[e] # 0 /\ (b[e] # but[e] \/ l[e] # latch[e]) => <<e, b[e]>> \in fresh'
  BY DEF Write
<1>5. but' = b /\ latch' = l
  BY DEF Write
<1>6. WrittenInv'
  <2> SUFFICES ASSUME NEW e \in Edges, b[e] # 0, b[e] # l[e]
               PROVE  <<e, b[e]>> \in fresh'
    BY <1>5 DEF WrittenInv
  <2>1. CASE b[e] # but[e] \/ l[e] # latch[e]
    BY <1>4, <2>1
  <2>2. CASE b[e] = but[e] /\ l[e] = latch[e]
    BY <1>2, <2>2 DEF CreditInv, WrittenInv
  <2>3. QED
    BY <2>1, <2>2
<1>7. QED
  BY <1>2, <1>3, <1>4, <1>5, <1>6

\* What an input leaves alone: the handler, but for a call to it.
CallAtMost(c) == phase[c] = "idle" /\ (Call(c) \/ UNCHANGED calls)

EnvironmentType ==
  /\ guitar \in [Buttons -> Levels] /\ gamepad_guitar_connected \in BOOLEAN
  /\ ll_have_fired \in BOOLEAN /\ struck \subseteq Edges

LEMMA CallType ==
  ASSUME TypeOK, NEW c \in Contexts, CallAtMost(c)
  PROVE  /\ edge' = edge /\ seen' = seen /\ finished_processing' = finished_processing
         /\ phase' \in [Contexts -> {"idle", "called", "tested", "inside", "handling", "leaving"}]
         /\ \A d \in Contexts : phase'[d] = phase[d] \/ (d = c /\ phase'[d] = "called")
BY DEF CallAtMost, Call, calls, TypeOK

\* A caller between handlings may write and be called.
LEMMA InputTypes ==
  ASSUME TypeOK, NEW c \in Contexts, CallAtMost(c), EnvironmentType',
         NEW b \in [Buttons -> Levels], NEW l \in [Buttons -> Levels], Write(b, l)
  PROVE  TypeOK'
<1>1. but' \in [Buttons -> Levels] /\ latch' \in [Buttons -> Levels]
  BY DEF Write
<1>2. fresh' \subseteq Edges \X Levels
  BY DEF Write, TypeOK, Edges
<1>3. QED
  BY <1>1, <1>2, CallType DEF TypeOK, EnvironmentType

LEMMA InputKeeps ==
  ASSUME CoreZero, IInv, NEW c \in Contexts, CallAtMost(c), EnvironmentType',
         NEW b \in [Buttons -> Levels], NEW l \in [Buttons -> Levels], Write(b, l)
  PROVE  IInv'
<1>1. /\ fresh \subseteq fresh'
      /\ \A e \in Edges : but'[e] # 0 /\ but'[e] # but[e] => <<e, but'[e]>> \in fresh'
      /\ WrittenInv'
  BY WriteKeeps DEF IInv
<1>2. /\ edge' = edge /\ seen' = seen /\ finished_processing' = finished_processing
      /\ \A d \in Contexts : phase'[d] = phase[d] \/ (d = c /\ phase'[d] = "called")
  BY CallType DEF IInv
<1>3. phase[c] = "idle"
  BY DEF CallAtMost
<1>4. TypeOK'
  BY InputTypes DEF IInv
<1>5. LatchInv'
  BY <1>2, <1>3 DEF IInv, LatchInv, Inside
<1>6. HandlingInv'
  <2> SUFFICES ASSUME NEW d \in Contexts, phase'[d] = "handling"
               PROVE  /\ seen'[d] # 0 => <<edge'[d], seen'[d]>> \in fresh'
                      /\ but'[edge'[d]] # 0 => <<edge'[d], but'[edge'[d]]>> \in fresh'
    BY DEF HandlingInv
  <2>1. phase[d] = "handling"
    BY <1>2
  <2>2. edge[d] \in Edges
    BY <2>1 DEF IInv, TypeOK
  <2>3. QED
    BY <1>1, <1>2, <2>1, <2>2 DEF IInv, CreditInv, HandlingInv
<1>7. QED
  BY <1>1, <1>4, <1>5, <1>6 DEF IInv, CreditInv

\* On core 0, one handler at a time.
LEMMA LatchIsOne == CoreZero /\ TypeOK /\ LatchInv => OneInside
BY DEF CoreZero, LatchInv, OneInside, Inside

LEMMA InitHolds == Init => IInv
<1> SUFFICES ASSUME Init PROVE IInv
  OBVIOUS
<1>1. TypeOK
  BY LevelsType DEF Init, TypeOK
<1>2. LatchInv
  BY DEF Init, LatchInv, Inside
<1>3. CreditInv
  <2>1. \A b \in Edges : but[b] = 0
    BY DEF Init, Released, Edges
  <2>2. \A c \in Contexts : phase[c] # "handling"
    BY DEF Init
  <2>3. QED
    BY <2>1, <2>2 DEF CreditInv, WrittenInv, HandlingInv
<1>4. QED
  BY <1>1, <1>2, <1>3 DEF IInv

\* An input writes the buttons and may call the handler, or touches neither.
LEMMA InputsWrite ==
  ASSUME TypeOK, Inputs
  PROVE  /\ EnvironmentType'
         /\ \/ UNCHANGED <<but, latch, calls, fresh>>
            \/ \E c \in Contexts : \E b, l \in [Buttons -> Levels] : CallAtMost(c) /\ Write(b, l)
<1> DEFINE Writes == \E c \in Contexts : \E b, l \in [Buttons -> Levels] : CallAtMost(c) /\ Write(b, l)
<1>1. EnvironmentType
  BY DEF TypeOK, EnvironmentType
<1>2. CASE \E b \in Buttons : Touch(b)
  BY <1>1, <1>2, LevelsType DEF Touch, EnvironmentType
<1>3. CASE DeviceConnected \/ DeviceDisconnected
  BY <1>1, <1>3, LevelsType DEF DeviceConnected, DeviceDisconnected, EnvironmentType
<1>4. CASE ControllerData
  <2>1. "bluetooth" \in Contexts /\ CallAtMost("bluetooth") /\ Write(guitar, latch)
    BY <1>4 DEF ControllerData, CanBegin, CallAtMost
  <2>2. EnvironmentType'
    BY <1>1, <1>4 DEF ControllerData, environment, EnvironmentType
  <2>3. QED
    BY <2>1, <2>2 DEF TypeOK
<1>5. ASSUME NEW c \in Contexts, NEW pressed \in SUBSET Buttons, Pad(c, pressed)
      PROVE  EnvironmentType' /\ Writes
  <2> DEFINE pads == (Frets \cup {"pitch", "starpower"}) \cap Buttons
  <2>1. CallAtMost(c) /\ Write(Put(Put(but, pads, 0), pressed, 1), Put(latch, pads, 0))
    BY <1>5 DEF Pad, CanBegin, CallAtMost
  <2>2. EnvironmentType'
    BY <1>1, <1>5 DEF Pad, environment, EnvironmentType
  <2> HIDE DEF pads
  <2>3. /\ Put(Put(but, pads, 0), pressed, 1) \in [Buttons -> Levels]
        /\ Put(latch, pads, 0) \in [Buttons -> Levels]
    <3>1. Put(but, pads, 0) \in [Buttons -> Levels] /\ Put(latch, pads, 0) \in [Buttons -> Levels]
      BY PutType DEF TypeOK
    <3>2. QED
      BY <3>1, PutType
  <2>4. QED
    BY <2>1, <2>2, <2>3
<1>6. ASSUME NEW c \in Contexts, NEW b \in Buttons, NEW launchkey \in BOOLEAN,
             ControlButton(c, b, launchkey)
      PROVE  EnvironmentType' /\ Writes
  <2> DEFINE released == IF launchkey THEN Frets ELSE {}
             pressed  == {b} \cup (released \cap {"orange"})
             wiped    == {b} \cup released
  <2>1. CallAtMost(c) /\ Write(Put(Put(but, released, 0), pressed, 1), Put(latch, wiped, 0))
    BY <1>6 DEF ControlButton, CanBegin, CallAtMost
  <2>2. EnvironmentType'
    BY <1>1, <1>6 DEF ControlButton, environment, EnvironmentType
  <2> HIDE DEF released, pressed, wiped
  <2>3. /\ Put(Put(but, released, 0), pressed, 1) \in [Buttons -> Levels]
        /\ Put(latch, wiped, 0) \in [Buttons -> Levels]
    <3>1. Put(but, released, 0) \in [Buttons -> Levels] /\ Put(latch, wiped, 0) \in [Buttons -> Levels]
      BY PutType DEF TypeOK
    <3>2. QED
      BY <3>1, PutType
  <2>4. QED
    BY <2>1, <2>2, <2>3
<1>7. ASSUME NEW pressed \in SUBSET Buttons, NEW away \in BOOLEAN, Paddle(pressed, away)
      PROVE  EnvironmentType' /\ Writes
  <2>1. "bluetooth" \in Contexts /\ CallAtMost("bluetooth")
        /\ Write(Put(Released, pressed, 1), Put(latch, pressed, 0))
    BY <1>7 DEF Paddle, CanBegin, CallAtMost
  <2>2. EnvironmentType'
    BY <1>1, <1>7 DEF Paddle, environment, EnvironmentType
  <2>3. /\ Put(Released, pressed, 1) \in [Buttons -> Levels]
        /\ Put(latch, pressed, 0) \in [Buttons -> Levels]
    BY LevelsType, PutType DEF TypeOK
  <2>4. QED
    BY <2>1, <2>2, <2>3
<1>8. CASE PaddleNeutral
  <2>1. "bluetooth" \in Contexts /\ CallAtMost("bluetooth")
        /\ Write(Released, Put(Put(latch, Frets, 0), {"left"}, 1))
    BY <1>8 DEF PaddleNeutral, CanBegin, CallAtMost
  <2>2. EnvironmentType'
    BY <1>1, <1>8 DEF PaddleNeutral, environment, EnvironmentType
  <2>3. /\ Released \in [Buttons -> Levels]
        /\ Put(Put(latch, Frets, 0), {"left"}, 1) \in [Buttons -> Levels]
    <3>1. Put(latch, Frets, 0) \in [Buttons -> Levels]
      BY PutType DEF TypeOK
    <3>2. QED
      BY <3>1, LevelsType, PutType
  <2>4. QED
    BY <2>1, <2>2, <2>3
<1>9. QED
  BY <1>2, <1>3, <1>4, <1>5, <1>6, <1>7, <1>8 DEF Inputs

LEMMA InputsKeepType == TypeOK /\ Inputs => TypeOK'
<1> SUFFICES ASSUME TypeOK, Inputs PROVE TypeOK'
  OBVIOUS
<1>1. EnvironmentType'
  BY InputsWrite
<1>2. CASE UNCHANGED <<but, latch, calls, fresh>>
  BY <1>1, <1>2 DEF TypeOK, EnvironmentType, calls
<1>3. ASSUME NEW c \in Contexts, NEW b \in [Buttons -> Levels], NEW l \in [Buttons -> Levels],
             CallAtMost(c), Write(b, l)
      PROVE  TypeOK'
  BY <1>1, <1>3, InputTypes
<1>4. QED
  BY <1>2, <1>3, InputsWrite

LEMMA InputsKeep == CoreZero /\ IInv /\ Inputs => IInv'
<1> SUFFICES ASSUME CoreZero, IInv, Inputs PROVE IInv'
  OBVIOUS
<1>1. TypeOK /\ EnvironmentType'
  BY InputsWrite DEF IInv
<1>2. CASE UNCHANGED <<but, latch, calls, fresh>>
  <2>1. LatchInv' /\ CreditInv'
    BY <1>2 DEF IInv, LatchInv, CreditInv, WrittenInv, HandlingInv, Inside, calls
  <2>2. QED
    BY <1>1, <2>1, InputsKeepType DEF IInv
<1>3. ASSUME NEW c \in Contexts, NEW b \in [Buttons -> Levels], NEW l \in [Buttons -> Levels],
             CallAtMost(c), Write(b, l)
      PROVE  IInv'
  BY <1>1, <1>3, InputKeeps
<1>4. QED
  BY <1>1, <1>2, <1>3, InputsWrite

-----------------------------------------------------------------------------
\* A context moves on, the others stay where they are.
LEMMA GoesMoves ==
  ASSUME TypeOK, NEW c \in Contexts, NEW from,
         NEW to \in {"idle", "called", "tested", "inside", "handling", "leaving"},
         Goes(c, from, to)
  PROVE  /\ phase[c] = from /\ phase'[c] = to
         /\ phase' \in [Contexts -> {"idle", "called", "tested", "inside", "handling", "leaving"}]
         /\ \A d \in Contexts \ {c} : phase'[d] = phase[d]
         /\ c = "uart" /\ "bluetooth" \in Contexts => phase["bluetooth"] = "idle"
BY DEF Goes, TypeOK, CanRun

LEMMA HandleDataTypes ==
  ASSUME TypeOK, NEW c \in Contexts, HandleData(c)
  PROVE  TypeOK'
<1>1. CASE Test(c)
  <2> DEFINE to == IF finished_processing THEN "tested" ELSE "idle"
  <2>1. to \in {"idle", "tested"}
    OBVIOUS
  <2>2. Goes(c, "called", to)
    BY <1>1 DEF Test
  <2> HIDE DEF to
  <2>3. phase' \in [Contexts -> {"idle", "called", "tested", "inside", "handling", "leaving"}]
        /\ phase'[c] # "handling" /\ \A d \in Contexts \ {c} : phase'[d] = phase[d]
    BY <2>1, <2>2, GoesMoves
  <2>4. QED
    BY <1>1, <2>3 DEF Test, TypeOK, environment
<1>2. CASE Enter(c)
  <2>1. phase' \in [Contexts -> {"idle", "called", "tested", "inside", "handling", "leaving"}]
        /\ phase'[c] # "handling" /\ \A d \in Contexts \ {c} : phase'[d] = phase[d]
    BY <1>2, GoesMoves DEF Enter
  <2>2. QED
    BY <1>2, <2>1 DEF Enter, TypeOK, environment
<1>3. CASE Scan(c)
  <2>1. latch' \in [Buttons -> Levels]
    BY <1>3 DEF Scan, TypeOK
  <2>2. ASSUME NEW b \in First, Goes(c, "inside", "handling"),
               edge' = [edge EXCEPT ![c] = b], seen' = [seen EXCEPT ![c] = but[b]]
        PROVE  TypeOK'
    <3>1. /\ phase' \in [Contexts -> {"idle", "called", "tested", "inside", "handling", "leaving"}]
          /\ \A d \in Contexts \ {c} : phase'[d] = phase[d]
      BY <2>2, GoesMoves
    <3>2. b \in Edges /\ b # None /\ but[b] \in Levels
      BY LevelsType DEF First, Changed, TypeOK
    <3>3. QED
      BY <1>3, <2>1, <2>2, <3>1, <3>2 DEF Scan, TypeOK, environment
  <2>3. ASSUME Goes(c, "inside", "leaving"), UNCHANGED <<edge, seen>> PROVE TypeOK'
    <3>1. phase' \in [Contexts -> {"idle", "called", "tested", "inside", "handling", "leaving"}]
          /\ phase'[c] # "handling" /\ \A d \in Contexts \ {c} : phase'[d] = phase[d]
      BY <2>3, GoesMoves
    <3>2. QED
      BY <1>3, <2>1, <2>3, <3>1 DEF Scan, TypeOK, environment
  <2>4. QED
    BY <1>3, <2>2, <2>3 DEF Scan
<1>4. CASE Handle(c)
  <2>1. /\ phase' \in [Contexts -> {"idle", "called", "tested", "inside", "handling", "leaving"}]
        /\ phase[c] = "handling" /\ phase'[c] # "handling"
        /\ \A d \in Contexts \ {c} : phase'[d] = phase[d]
    BY <1>4, GoesMoves DEF Handle, Done
  <2>2. edge[c] \in Edges /\ edge[c] \in Buttons /\ seen[c] \in Levels /\ but[edge[c]] \in Levels
    BY <2>1, LevelsType DEF TypeOK
  <2>3. latch' \in [Buttons -> Levels] /\ fresh' \subseteq Edges \X Levels /\ struck' \subseteq Edges
    BY <1>4, <2>2 DEF Handle, TypeOK
  <2>4. /\ edge' \in [Contexts -> Edges \cup {None}] /\ seen' \in [Contexts -> Levels]
        /\ \A d \in Contexts : edge'[d] = None => phase'[d] # "handling"
    BY <1>4, <2>1, LevelsType DEF Handle, Done, TypeOK
  <2>5. QED
    BY <1>4, <2>1, <2>3, <2>4 DEF Handle, TypeOK, environment
<1>5. CASE Leave(c)
  <2>1. phase' \in [Contexts -> {"idle", "called", "tested", "inside", "handling", "leaving"}]
        /\ phase'[c] # "handling" /\ \A d \in Contexts \ {c} : phase'[d] = phase[d]
    BY <1>5, GoesMoves DEF Leave
  <2>2. QED
    BY <1>5, <2>1 DEF Leave, TypeOK, environment
<1>6. QED
  BY <1>1, <1>2, <1>3, <1>4, <1>5 DEF HandleData

LEMMA HandleDataKeeps ==
  ASSUME CoreZero, IInv, NEW c \in Contexts, HandleData(c)
  PROVE  IInv'
<1>1. TypeOK /\ LatchInv /\ CreditInv /\ TypeOK'
  BY HandleDataTypes DEF IInv
<1>2. CASE Test(c)
  <2> DEFINE to == IF finished_processing THEN "tested" ELSE "idle"
  <2>1. Goes(c, "called", to)
        /\ UNCHANGED <<environment, but, latch, ll_have_fired, finished_processing, edge, seen, fresh, struck>>
    BY <1>2 DEF Test
  <2>2. to \in {"idle", "tested"} /\ (to = "tested" => finished_processing)
    OBVIOUS
  <2> HIDE DEF to
  <2>3. /\ phase[c] = "called" /\ phase'[c] = to
        /\ phase' \in [Contexts -> {"idle", "called", "tested", "inside", "handling", "leaving"}]
        /\ \A d \in Contexts \ {c} : phase'[d] = phase[d]
        /\ c = "uart" /\ "bluetooth" \in Contexts => phase["bluetooth"] = "idle"
    BY <1>1, <2>1, <2>2, GoesMoves
  <2>4. LatchInv'
    BY <1>1, <2>1, <2>2, <2>3 DEF LatchInv, Inside, CoreZero
  <2>5. CreditInv'
    BY <1>1, <2>1, <2>2, <2>3 DEF CreditInv, WrittenInv, HandlingInv
  <2>6. QED
    BY <1>1, <2>4, <2>5 DEF IInv
<1>3. CASE Enter(c)
  <2>1. UNCHANGED <<environment, but, latch, ll_have_fired, edge, seen, fresh, struck>>
        /\ finished_processing' = FALSE /\ Goes(c, "tested", "inside")
    BY <1>3 DEF Enter
  <2>2. /\ phase[c] = "tested" /\ phase'[c] = "inside"
        /\ phase' \in [Contexts -> {"idle", "called", "tested", "inside", "handling", "leaving"}]
        /\ \A d \in Contexts \ {c} : phase'[d] = phase[d]
        /\ c = "uart" /\ "bluetooth" \in Contexts => phase["bluetooth"] = "idle"
    BY <1>1, <2>1, GoesMoves
  <2>3. LatchInv'
    BY <1>1, <2>1, <2>2 DEF LatchInv, Inside, CoreZero
  <2>4. CreditInv'
    BY <1>1, <2>1, <2>2 DEF CreditInv, WrittenInv, HandlingInv
  <2>5. QED
    BY <1>1, <2>3, <2>4 DEF IInv
<1>4. CASE Scan(c)
  <2>1. /\ UNCHANGED <<environment, but, ll_have_fired, finished_processing, fresh, struck>>
        /\ latch' = [b \in Buttons |-> IF b \in Frets THEN but[b] ELSE latch[b]]
        /\ phase[c] = "inside"
    BY <1>4 DEF Scan
  <2>2. latch' \in [Buttons -> Levels] /\ \A b \in Edges : latch'[b] = latch[b]
    BY <1>1, <2>1 DEF TypeOK, Edges
  <2>3. WrittenInv'
    BY <1>1, <2>1, <2>2 DEF CreditInv, WrittenInv
  <2>4. ASSUME NEW b \in First, Goes(c, "inside", "handling"),
               edge' = [edge EXCEPT ![c] = b], seen' = [seen EXCEPT ![c] = but[b]]
        PROVE  IInv'
    <3>1. /\ phase'[c] = "handling"
          /\ phase' \in [Contexts -> {"idle", "called", "tested", "inside", "handling", "leaving"}]
          /\ \A d \in Contexts \ {c} : phase'[d] = phase[d]
      BY <1>1, <2>4, GoesMoves
    <3>2. b \in Edges /\ but[b] # latch[b] /\ b # None /\ but[b] \in Levels
      BY <1>1, LevelsType DEF First, Changed, TypeOK
    <3>3. LatchInv'
      BY <1>1, <2>1, <3>1 DEF LatchInv, Inside, CoreZero
    <3>4. but[b] # 0 => <<b, but[b]>> \in fresh
      BY <1>1, <3>2 DEF CreditInv, WrittenInv
    <3>5. HandlingInv'
      BY <1>1, <2>1, <2>4, <3>1, <3>4 DEF CreditInv, HandlingInv, TypeOK
    <3>6. QED
      BY <1>1, <2>3, <3>3, <3>5 DEF IInv, CreditInv
  <2>5. ASSUME Goes(c, "inside", "leaving"), UNCHANGED <<edge, seen>> PROVE IInv'
    <3>1. /\ phase'[c] = "leaving"
          /\ phase' \in [Contexts -> {"idle", "called", "tested", "inside", "handling", "leaving"}]
          /\ \A d \in Contexts \ {c} : phase'[d] = phase[d]
      BY <1>1, <2>5, GoesMoves
    <3>2. LatchInv'
      BY <1>1, <2>1, <3>1 DEF LatchInv, Inside, CoreZero
    <3>3. HandlingInv'
      BY <1>1, <2>1, <2>5, <3>1 DEF CreditInv, HandlingInv
    <3>4. QED
      BY <1>1, <2>3, <3>2, <3>3 DEF IInv, CreditInv
  <2>6. QED
    BY <1>4, <2>4, <2>5 DEF Scan
<1>5. CASE Handle(c)
  <2> DEFINE b == edge[c]
  <2>1. PICK value \in {seen[c], but[b]} :
          /\ latch' = [latch EXCEPT ![b] = value]
          /\ fresh' = fresh \ {<<b, value>>}
          /\ struck' = IF value # 0 /\ b \in {"right", "left"} /\ ~gamepad_guitar_connected
                       THEN struck \cup {b} ELSE struck
    BY <1>5 DEF Handle
  <2>2. /\ UNCHANGED <<environment, but, ll_have_fired, finished_processing>>
        /\ Goes(c, "handling", "leaving")
        /\ edge' = [edge EXCEPT ![c] = None] /\ seen' = [seen EXCEPT ![c] = 0]
    BY <1>5 DEF Handle, Done
  <2>3. /\ phase[c] = "handling" /\ phase'[c] = "leaving"
        /\ phase' \in [Contexts -> {"idle", "called", "tested", "inside", "handling", "leaving"}]
        /\ \A d \in Contexts \ {c} : phase'[d] = phase[d]
    BY <1>1, <2>2, GoesMoves
  <2>4. b \in Edges /\ b \in Buttons /\ value \in Levels
    BY <1>1, <2>3, LevelsType DEF TypeOK
  <2>5. but[b] # 0 => <<b, but[b]>> \in fresh
    BY <1>1, <2>3 DEF CreditInv, HandlingInv
  <2> HIDE DEF b
  <2>6. LatchInv'
    BY <1>1, <2>2, <2>3 DEF LatchInv, Inside, CoreZero
  <2>7. WrittenInv'
    <3> SUFFICES ASSUME NEW e \in Edges, but[e] # 0, but[e] # latch'[e]
                 PROVE  <<e, but[e]>> \in fresh'
      BY <2>2 DEF WrittenInv
    <3>1. CASE e = b
      <4>1. latch'[e] = value
        BY <1>1, <2>1, <2>4, <3>1 DEF TypeOK
      <4>2. QED
        BY <2>1, <2>5, <3>1, <4>1
    <3>2. CASE e # b
      <4>1. latch'[e] = latch[e]
        BY <1>1, <2>1, <3>2, LevelsType DEF TypeOK
      <4>2. QED
        BY <1>1, <2>1, <3>2, <4>1 DEF CreditInv, WrittenInv
    <3>3. QED
      BY <3>1, <3>2
  <2>8. HandlingInv'
    <3>1. \A d \in Contexts : phase'[d] # "handling"
      <4>1. OneInside
        BY <1>1, LatchIsOne
      <4>2. QED
        BY <2>3, <4>1 DEF OneInside, Inside
    <3>2. QED
      BY <3>1 DEF HandlingInv
  <2>9. QED
    BY <1>1, <2>6, <2>7, <2>8 DEF IInv, CreditInv
<1>6. CASE Leave(c)
  <2>1. UNCHANGED <<environment, but, latch, ll_have_fired, edge, seen, fresh, struck>>
        /\ finished_processing' = TRUE /\ Goes(c, "leaving", "idle")
    BY <1>6 DEF Leave
  <2>2. /\ phase[c] = "leaving" /\ phase'[c] = "idle"
        /\ phase' \in [Contexts -> {"idle", "called", "tested", "inside", "handling", "leaving"}]
        /\ \A d \in Contexts \ {c} : phase'[d] = phase[d]
    BY <1>1, <2>1, GoesMoves
  <2>3. LatchInv'
    <3>1. \A d \in Contexts : ~Inside(d)'
      <4>1. OneInside
        BY <1>1, LatchIsOne
      <4>2. QED
        BY <2>2, <4>1 DEF OneInside, Inside
    <3>2. QED
      BY <3>1 DEF LatchInv
  <2>4. CreditInv'
    BY <1>1, <2>1, <2>2 DEF CreditInv, WrittenInv, HandlingInv
  <2>5. QED
    BY <1>1, <2>3, <2>4 DEF IInv
<1>7. QED
  BY <1>2, <1>3, <1>4, <1>5, <1>6 DEF HandleData

LEMMA NextKeeps == CoreZero /\ IInv /\ [Next]_vars => IInv'
<1> SUFFICES ASSUME CoreZero, IInv, [Next]_vars PROVE IInv'
  OBVIOUS
<1>1. CASE Next
  BY <1>1, InputsKeep, HandleDataKeeps DEF Next
<1>2. CASE UNCHANGED vars
  <2>1. UNCHANGED <<guitar, gamepad_guitar_connected, but, latch, ll_have_fired, phase, edge,
                    seen, finished_processing, fresh, struck>>
    BY <1>2 DEF vars, environment, calls
  <2>2. QED
    BY <2>1 DEF IInv, TypeOK, LatchInv, CreditInv, WrittenInv, HandlingInv, Inside
<1>3. QED
  BY <1>1, <1>2

\* Whatever contexts call the handler, core 1 included, and however they
\* interleave, the buttons and latches keep to values the code writes.
THEOREM GamepadTypeOK == Spec => []TypeOK
<1>1. Init => TypeOK
  BY InitHolds DEF IInv
<1>2. TypeOK /\ [Next]_vars => TypeOK'
  <2>1. TypeOK /\ Next => TypeOK'
    BY InputsKeepType, HandleDataTypes DEF Next
  <2>2. TypeOK /\ UNCHANGED vars => TypeOK'
    BY DEF vars, environment, calls, TypeOK
  <2>3. QED
    BY <2>1, <2>2
<1>3. QED
  BY <1>1, <1>2, PTL DEF Spec

\* finished_processing keeps the handler from being re-entered by a callback
\* that interrupts the main loop in it, for every set of buttons.
THEOREM HandlerNotReentered == ASSUME CoreZero PROVE Spec => []OneInside
<1>1. Init => IInv
  BY InitHolds
<1>2. IInv /\ [Next]_vars => IInv'
  BY NextKeeps
<1>3. IInv => OneInside
  BY LatchIsOne DEF IInv
<1>4. QED
  BY <1>1, <1>2, <1>3, PTL DEF Spec

\* On core 0 each press that is handled was written, or its latch wiped, since it
\* was last handled, though buttons change between any two steps of the handler.
THEOREM PressesHandledOnce == ASSUME CoreZero PROVE Spec => NoPressTwice
<1>1. Init => IInv
  BY InitHolds
<1>2. IInv /\ [Next]_vars => IInv'
  BY NextKeeps
<1>3. IInv /\ [Next]_vars =>
        [\A c \in Contexts : Presses(c) => <<edge[c], latch'[edge[c]]>> \in fresh]_vars
  <2> SUFFICES ASSUME IInv, Next, NEW c \in Contexts, Presses(c)
               PROVE  <<edge[c], latch'[edge[c]]>> \in fresh
    OBVIOUS
  <2>1. phase[c] = "handling" /\ phase'[c] = "leaving" /\ latch'[edge[c]] # 0
    BY DEF Presses, Handles
  <2>2. Handle(c)
    <3>1. ASSUME Inputs PROVE FALSE
      <4>1. \A d \in Contexts : phase'[d] = phase[d] \/ phase'[d] = "called"
        BY <3>1 DEF IInv, TypeOK, Inputs, Touch, DeviceConnected, DeviceDisconnected,
                    ControllerData, Pad, ControlButton, Paddle, PaddleNeutral, Call, calls
      <4>2. QED
        BY <2>1, <4>1
    <3>2. PICK d \in Contexts : HandleData(d)
      BY <3>1 DEF Next
    <3>3. d = c
      BY <2>1, <3>2 DEF HandleData, Test, Enter, Scan, Handle, Done, Leave, Goes, IInv, TypeOK
    <3>4. QED
      BY <2>1, <3>2, <3>3 DEF HandleData, Test, Enter, Scan, Leave, Goes
  <2>3. PICK value \in {seen[c], but[edge[c]]} : latch' = [latch EXCEPT ![edge[c]] = value]
    BY <2>2 DEF Handle
  <2>4. edge[c] \in Edges /\ edge[c] \in Buttons
    BY <2>1, LevelsType DEF IInv, TypeOK
  <2>5. latch'[edge[c]] = value
    BY <2>3, <2>4 DEF IInv, TypeOK
  <2>6. QED
    BY <2>1, <2>3, <2>5 DEF IInv, CreditInv, HandlingInv
<1>4. QED
  BY <1>1, <1>2, <1>3, PTL DEF Spec, NoPressTwice

-----------------------------------------------------------------------------
(* Without MIDI pads ll_have_fired does what it is there for: only a call   *)
(* that begins with struck empty can find a press.                          *)

NoPads == Contexts \subseteq {"bluetooth"}

Underway == \E c \in Contexts : phase[c] \in {"called", "tested", "inside", "handling"}

StrumInv ==
  /\ gamepad_guitar_connected \/ ~ll_have_fired \/ Underway => struck = {}
  /\ Underway /\ ~gamepad_guitar_connected /\ ~ll_have_fired =>
       /\ \A b \in Buttons : but[b] = 0
       /\ \A c \in Contexts : phase[c] = "handling" => seen[c] = 0

LEMMA StrumInputs ==
  ASSUME NoPads, TypeOK, StrumInv, Inputs
  PROVE  StrumInv'
<1>1. ASSUME NEW b \in Buttons, Touch(b)
      PROVE  StrumInv'
  BY <1>1 DEF Touch, calls, StrumInv, Underway
<1>2. CASE DeviceConnected \/ DeviceDisconnected
  <2>1. /\ "bluetooth" \in Contexts /\ phase["bluetooth"] = "idle" /\ phase' = phase
        /\ struck' = {}
    BY <1>2 DEF DeviceConnected, DeviceDisconnected, CanBegin, calls, StrumInv
  <2>2. ~Underway'
    BY <2>1 DEF NoPads, Underway
  <2> QED
    BY <2>1, <2>2 DEF StrumInv
<1>3. CASE ControllerData
  BY <1>3 DEF ControllerData, environment, Call, StrumInv
<1>4. ASSUME NEW c \in Contexts, NEW pressed, NEW b, NEW launchkey,
             Pad(c, pressed) \/ ControlButton(c, b, launchkey)
      PROVE  FALSE
  BY <1>4 DEF Pad, ControlButton, NoPads
<1>5. ASSUME NEW pressed \in SUBSET Buttons, NEW away \in BOOLEAN, Paddle(pressed, away)
      PROVE  StrumInv'
  <2>1. /\ "bluetooth" \in Contexts /\ phase["bluetooth"] = "idle"
        /\ ll_have_fired' = (ll_have_fired \/ away) /\ struck' = struck
        /\ ~gamepad_guitar_connected /\ gamepad_guitar_connected' = gamepad_guitar_connected
    BY <1>5 DEF Paddle, CanBegin, environment
  <2>2. CASE away /\ ~ll_have_fired
    BY <2>1, <2>2 DEF StrumInv, TypeOK
  <2>3. CASE UNCHANGED calls /\ (away => ll_have_fired)
    <3>1. ~Underway'
      BY <2>1, <2>3 DEF calls, NoPads, Underway
    <3> QED
      BY <2>1, <2>3, <3>1 DEF StrumInv, TypeOK
  <2> QED
    BY <1>5, <2>2, <2>3 DEF Paddle
<1>6. CASE PaddleNeutral
  <2>1. /\ "bluetooth" \in Contexts /\ but' = Released /\ struck' = {}
        /\ phase' = [phase EXCEPT !["bluetooth"] = "called"]
    BY <1>6 DEF PaddleNeutral, CanBegin, Write, Call
  <2>2. \A c \in Contexts : phase'[c] = "called"
    BY <2>1 DEF NoPads, TypeOK
  <2> QED
    BY <2>1, <2>2 DEF StrumInv, Released
<1> QED
  BY <1>1, <1>2, <1>3, <1>4, <1>5, <1>6 DEF Inputs

LEMMA StrumHandled ==
  ASSUME NoPads, TypeOK, StrumInv, NEW c \in Contexts, HandleData(c)
  PROVE  StrumInv'
<1>1. UNCHANGED <<but, gamepad_guitar_connected, ll_have_fired>> /\ \A d \in Contexts : d = c
  BY DEF HandleData, Test, Enter, Scan, Handle, Leave, environment, NoPads
<1>2. CASE Handle(c)
  <2>1. Underway
    BY <1>2 DEF Handle, Done, Goes, Underway
  <2>2. ~Underway'
    BY <1>1, <1>2 DEF Handle, Done, Goes, Underway, TypeOK
  <2>3. ASSUME ~gamepad_guitar_connected, ~ll_have_fired
        PROVE  struck' = {}
    <3>1. edge[c] \in Buttons
      BY <1>2, LevelsType DEF Handle, Done, Goes, TypeOK
    <3>2. seen[c] = 0 /\ but[edge[c]] = 0
      BY <1>2, <2>1, <2>3, <3>1 DEF StrumInv, Handle, Done, Goes
    <3> QED
      BY <1>2, <2>1, <3>2 DEF Handle, StrumInv
  <2>4. ASSUME gamepad_guitar_connected
        PROVE  struck' = {}
    BY <1>2, <2>4 DEF Handle, StrumInv
  <2> QED
    BY <1>1, <2>2, <2>3, <2>4 DEF StrumInv
<1>3. CASE Scan(c)
  <2>1. Underway /\ struck' = struck
    BY <1>3 DEF Scan, Underway
  <2>2. ASSUME \A b \in Buttons : but[b] = 0, phase'[c] = "handling"
        PROVE  seen'[c] = 0
    <3>1. PICK b \in First : seen' = [seen EXCEPT ![c] = but[b]]
      BY <1>3, <2>2 DEF Scan, Goes, TypeOK
    <3>2. b \in Buttons
      BY <3>1, LevelsType DEF First, Changed
    <3> QED
      BY <2>2, <3>1, <3>2 DEF TypeOK
  <2> QED
    BY <1>1, <2>1, <2>2 DEF StrumInv
<1>4. CASE Test(c) \/ Enter(c) \/ Leave(c)
  <2>1. /\ struck' = struck
        /\ Underway' => Underway
        /\ \A d \in Contexts : phase'[d] # "handling"
    BY <1>1, <1>4 DEF Test, Enter, Leave, Goes, Underway, TypeOK
  <2> QED
    BY <1>1, <2>1 DEF StrumInv
<1> QED
  BY <1>2, <1>3, <1>4 DEF HandleData

\* With no MIDI keyboard about, a motion of the Liberlive's paddle strums each way once at
\* most, however often it is reported and whether or not guitars come and go
\* meanwhile: it takes a pad to make the second strum that gamepad_strum finds.
THEOREM OneStrumWithoutPads == ASSUME NoPads PROVE Spec => OneStrumPerMotion
<1>1. Init => StrumInv
  BY DEF Init, StrumInv, Released
<1>2. TypeOK /\ StrumInv /\ [Next]_vars => StrumInv'
  <2> SUFFICES ASSUME TypeOK, StrumInv, [Next]_vars PROVE StrumInv'
    OBVIOUS
  <2>1. CASE Next
    BY <2>1, StrumInputs, StrumHandled DEF Next
  <2>2. CASE UNCHANGED vars
    BY <2>2 DEF vars, environment, calls, StrumInv, Underway
  <2> QED
    BY <2>1, <2>2
<1>3. TypeOK /\ StrumInv /\ [Next]_vars =>
        [\A c \in Contexts : Presses(c) => edge[c] \notin struck]_vars
  <2> SUFFICES ASSUME StrumInv, NEW c \in Contexts, Presses(c)
               PROVE  edge[c] \notin struck
    OBVIOUS
  <2>1. Underway
    BY DEF Presses, Handles, Underway
  <2> QED
    BY <2>1 DEF StrumInv
<1>4. Spec => []TypeOK
  BY GamepadTypeOK
<1> QED
  BY <1>1, <1>2, <1>3, <1>4, PTL DEF Spec, OneStrumPerMotion
=============================================================================
