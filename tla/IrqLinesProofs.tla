--------------------------- MODULE IrqLinesProofs ---------------------------
(***************************************************************************)
(* Proofs about IrqLines, for any lines, bindings and bounds.              *)
(***************************************************************************)
EXTENDS IrqLines, FiniteSetTheorems, TLAPS

\* No binding, every line shut, and no handler at work.
LEMMA IrqInit == Init => IrqInductive
  <1> SUFFICES ASSUME Init PROVE IrqInductive
    OBVIOUS
  <1>0. AnyLine \in Lines
    BY LinesAssumption DEF AnyLine
  <1>1. TypeOK
    BY <1>0 DEF Init, TypeOK, Free, Rest
  <1>2. References /\ MaskedStaysShut
    BY BindingAssumption DEF Init, References, MaskedStaysShut
  <1>3. SectionInv /\ HandlerInv /\ CountInv
    BY BindingAssumption DEF Init, SectionInv, HandlerInv, CountInv, Free, Rest
  <1> QED
    BY <1>1, <1>2, <1>3 DEF IrqInductive

\* Each step keeps the types.
LEMMA IrqTypeStep ==
  ASSUME TypeOK, HandlerInv, [Next]_vars
  PROVE TypeOK'
  <1> USE BindingAssumption DEF TypeOK, Free, gic, counts, chan
  <1>0. CASE UNCHANGED vars
    BY <1>0 DEF vars
  <1>1. ASSUME NEW b \in Bindings, NEW l \in Lines, Bind(b, l) PROVE TypeOK'
    BY <1>1 DEF Bind
  <1>2. ASSUME NEW b \in Bindings, SetTrigger(b) PROVE TypeOK'
    BY <1>2 DEF SetTrigger
  <1>3. ASSUME NEW b \in Bindings, Open(b) PROVE TypeOK'
    BY <1>3 DEF Open
  <1>4. ASSUME NEW b \in Bindings, RetainHandle(b) PROVE TypeOK'
    BY <1>4 DEF RetainHandle
  <1>5. ASSUME NEW b \in Bindings, ReleaseHandle(b) PROVE TypeOK'
    BY <1>5 DEF ReleaseHandle, Release
  <1>6. ASSUME NEW b \in Bindings, MaskLine(b) PROVE TypeOK'
    BY <1>6 DEF MaskLine
  <1>7. ASSUME NEW b \in Bindings, UnlinkLine(b) PROVE TypeOK'
    BY <1>7 DEF UnlinkLine, Release
  <1>8. ASSUME NEW b \in Bindings, Ack(b) PROVE TypeOK'
    BY <1>8 DEF Ack
  <1>9. ASSUME NEW b \in Bindings, TakeSlot(b) PROVE TypeOK'
    BY <1>9 DEF TakeSlot, Release
  <1>10. ASSUME NEW b \in Bindings, Clean(b) PROVE TypeOK'
    BY <1>10 DEF Clean
  <1>11. ASSUME NEW b \in Bindings, Reclaim(b) PROVE TypeOK'
    <2>1. AnyLine \in Lines
      BY LinesAssumption DEF AnyLine
    <2> QED
      BY <2>1, <1>11 DEF Reclaim
  <1>12. CASE Wait
    BY <1>12 DEF Wait
  <1>13. CASE CloseChannel
    BY <1>13 DEF CloseChannel
  <1>14. CASE WakeClosed
    BY <1>14 DEF WakeClosed
  <1>15. ASSUME NEW l \in Lines, Device(l) PROVE TypeOK'
    BY <1>15 DEF Device
  <1>16. ASSUME NEW l \in Lines, Acknowledge(l) PROVE TypeOK'
    BY <1>16 DEF Acknowledge
  <1>17. CASE Look
    BY <1>17 DEF Look
  <1>18. CASE Deliver
    <2>1. queued' \in SUBSET Bindings /\ masked' \in SUBSET Bindings /\ refs' \in [Bindings -> Int]
      BY <1>18 DEF Deliver, Post, HandlerInv
    <2>2. waiting' \in {0, 1} /\ enabled' \in SUBSET Lines
      BY <1>18 DEF Deliver, Post
    <2>3. handler' \in [at : {"rest", "look", "deliver", "mask", "end"}, line : Lines, b : Bindings \union {NoBinding}]
      BY <1>18 DEF Deliver
    <2> QED
      BY <2>1, <2>2, <2>3, <1>18 DEF Deliver
  <1>19. CASE MaskUnbound
    BY <1>19 DEF MaskUnbound
  <1>20. CASE End
    <2>1. AnyLine \in Lines
      BY LinesAssumption DEF AnyLine
    <2> QED
      BY <2>1, <1>20 DEF End, Rest
  <1> QED
    BY <1>0, <1>1, <1>2, <1>3, <1>4, <1>5, <1>6, <1>7, <1>8, <1>9, <1>10, <1>11, <1>12, <1>13, <1>14, <1>15, <1>16, <1>17, <1>18, <1>19, <1>20 DEF Next, Calls, Interrupts

\* A binding and the entry of its line, its counts and its place in the
\* cleanup queue go together through every step.
LEMMA ReferencesStep ==
  ASSUME TypeOK, References, SectionInv, CountInv, [Next]_vars
  PROVE References'
  <1> USE BindingAssumption DEF TypeOK, References, SectionInv, CountInv, Free, gic, counts, chan
  <1>0. CASE UNCHANGED vars
    BY <1>0 DEF vars
  <1>1. ASSUME NEW b \in Bindings, NEW l \in Lines, Bind(b, l) PROVE References'
    BY <1>1 DEF Bind
  <1>2. ASSUME NEW b \in Bindings, SetTrigger(b) PROVE References'
    BY <1>2 DEF SetTrigger
  <1>3. ASSUME NEW b \in Bindings, Open(b) PROVE References'
    BY <1>3 DEF Open
  <1>4. ASSUME NEW b \in Bindings, RetainHandle(b) PROVE References'
    BY <1>4 DEF RetainHandle
  <1>5. ASSUME NEW b \in Bindings, ReleaseHandle(b) PROVE References'
    BY <1>5 DEF ReleaseHandle, Release
  <1>6. ASSUME NEW b \in Bindings, MaskLine(b) PROVE References'
    BY <1>6 DEF MaskLine
  <1>7. ASSUME NEW b \in Bindings, UnlinkLine(b) PROVE References'
    BY <1>7 DEF UnlinkLine, Release
  <1>8. ASSUME NEW b \in Bindings, Ack(b) PROVE References'
    BY <1>8 DEF Ack
  <1>9. ASSUME NEW b \in Bindings, TakeSlot(b) PROVE References'
    BY <1>9 DEF TakeSlot, Release
  <1>10. ASSUME NEW b \in Bindings, Clean(b) PROVE References'
    BY <1>10 DEF Clean
  <1>11. ASSUME NEW b \in Bindings, Reclaim(b) PROVE References'
    BY <1>11 DEF Reclaim
  <1>12. CASE Wait
    BY <1>12 DEF Wait
  <1>13. CASE CloseChannel
    BY <1>13 DEF CloseChannel
  <1>14. CASE WakeClosed
    BY <1>14 DEF WakeClosed
  <1>15. ASSUME NEW l \in Lines, Device(l) PROVE References'
    BY <1>15 DEF Device
  <1>16. ASSUME NEW l \in Lines, Acknowledge(l) PROVE References'
    BY <1>16 DEF Acknowledge
  <1>17. CASE Look
    BY <1>17 DEF Look
  <1>18. CASE Deliver
    BY <1>18 DEF Deliver, Post
  <1>19. CASE MaskUnbound
    BY <1>19 DEF MaskUnbound
  <1>20. CASE End
    BY <1>20 DEF End
  <1> QED
    BY <1>0, <1>1, <1>2, <1>3, <1>4, <1>5, <1>6, <1>7, <1>8, <1>9, <1>10, <1>11, <1>12, <1>13, <1>14, <1>15, <1>16, <1>17, <1>18, <1>19, <1>20 DEF Next, Calls, Interrupts

\* A line opens only for a binding that is not masked.
LEMMA MaskedStep ==
  ASSUME TypeOK, References, MaskedStaysShut, SectionInv, CountInv, [Next]_vars
  PROVE MaskedStaysShut'
  <1> USE BindingAssumption DEF TypeOK, References, MaskedStaysShut, SectionInv, CountInv, Free, gic, counts, chan
  <1>0. CASE UNCHANGED vars
    BY <1>0 DEF vars
  <1>1. ASSUME NEW b \in Bindings, NEW l \in Lines, Bind(b, l) PROVE MaskedStaysShut'
    BY <1>1 DEF Bind
  <1>2. ASSUME NEW b \in Bindings, SetTrigger(b) PROVE MaskedStaysShut'
    BY <1>2 DEF SetTrigger
  <1>3. ASSUME NEW b \in Bindings, Open(b) PROVE MaskedStaysShut'
    BY <1>3 DEF Open
  <1>4. ASSUME NEW b \in Bindings, RetainHandle(b) PROVE MaskedStaysShut'
    BY <1>4 DEF RetainHandle
  <1>5. ASSUME NEW b \in Bindings, ReleaseHandle(b) PROVE MaskedStaysShut'
    BY <1>5 DEF ReleaseHandle, Release
  <1>6. ASSUME NEW b \in Bindings, MaskLine(b) PROVE MaskedStaysShut'
    BY <1>6 DEF MaskLine
  <1>7. ASSUME NEW b \in Bindings, UnlinkLine(b) PROVE MaskedStaysShut'
    BY <1>7 DEF UnlinkLine, Release
  <1>8. ASSUME NEW b \in Bindings, Ack(b) PROVE MaskedStaysShut'
    BY <1>8 DEF Ack
  <1>9. ASSUME NEW b \in Bindings, TakeSlot(b) PROVE MaskedStaysShut'
    BY <1>9 DEF TakeSlot, Release
  <1>10. ASSUME NEW b \in Bindings, Clean(b) PROVE MaskedStaysShut'
    BY <1>10 DEF Clean
  <1>11. ASSUME NEW b \in Bindings, Reclaim(b) PROVE MaskedStaysShut'
    BY <1>11 DEF Reclaim
  <1>12. CASE Wait
    BY <1>12 DEF Wait
  <1>13. CASE CloseChannel
    BY <1>13 DEF CloseChannel
  <1>14. CASE WakeClosed
    BY <1>14 DEF WakeClosed
  <1>15. ASSUME NEW l \in Lines, Device(l) PROVE MaskedStaysShut'
    BY <1>15 DEF Device
  <1>16. ASSUME NEW l \in Lines, Acknowledge(l) PROVE MaskedStaysShut'
    BY <1>16 DEF Acknowledge
  <1>17. CASE Look
    BY <1>17 DEF Look
  <1>18. CASE Deliver
    BY <1>18 DEF Deliver, Post
  <1>19. CASE MaskUnbound
    BY <1>19 DEF MaskUnbound
  <1>20. CASE End
    BY <1>20 DEF End
  <1> QED
    BY <1>0, <1>1, <1>2, <1>3, <1>4, <1>5, <1>6, <1>7, <1>8, <1>9, <1>10, <1>11, <1>12, <1>13, <1>14, <1>15, <1>16, <1>17, <1>18, <1>19, <1>20 DEF Next, Calls, Interrupts

\* What a section did so far stays true until its next step.
LEMMA SectionStep ==
  ASSUME TypeOK, References, MaskedStaysShut, SectionInv, CountInv, [Next]_vars
  PROVE SectionInv'
  <1> USE BindingAssumption DEF TypeOK, References, MaskedStaysShut, SectionInv, CountInv, Free, gic, counts, chan
  <1>0. CASE UNCHANGED vars
    BY <1>0 DEF vars
  <1>1. ASSUME NEW b \in Bindings, NEW l \in Lines, Bind(b, l) PROVE SectionInv'
    BY <1>1 DEF Bind
  <1>2. ASSUME NEW b \in Bindings, SetTrigger(b) PROVE SectionInv'
    BY <1>2 DEF SetTrigger
  <1>3. ASSUME NEW b \in Bindings, Open(b) PROVE SectionInv'
    BY <1>3 DEF Open
  <1>4. ASSUME NEW b \in Bindings, RetainHandle(b) PROVE SectionInv'
    BY <1>4 DEF RetainHandle
  <1>5. ASSUME NEW b \in Bindings, ReleaseHandle(b) PROVE SectionInv'
    BY <1>5 DEF ReleaseHandle, Release
  <1>6. ASSUME NEW b \in Bindings, MaskLine(b) PROVE SectionInv'
    BY <1>6 DEF MaskLine
  <1>7. ASSUME NEW b \in Bindings, UnlinkLine(b) PROVE SectionInv'
    BY <1>7 DEF UnlinkLine, Release
  <1>8. ASSUME NEW b \in Bindings, Ack(b) PROVE SectionInv'
    BY <1>8 DEF Ack
  <1>9. ASSUME NEW b \in Bindings, TakeSlot(b) PROVE SectionInv'
    BY <1>9 DEF TakeSlot, Release
  <1>10. ASSUME NEW b \in Bindings, Clean(b) PROVE SectionInv'
    BY <1>10 DEF Clean
  <1>11. ASSUME NEW b \in Bindings, Reclaim(b) PROVE SectionInv'
    BY <1>11 DEF Reclaim
  <1>12. CASE Wait
    BY <1>12 DEF Wait
  <1>13. CASE CloseChannel
    BY <1>13 DEF CloseChannel
  <1>14. CASE WakeClosed
    BY <1>14 DEF WakeClosed
  <1>15. ASSUME NEW l \in Lines, Device(l) PROVE SectionInv'
    BY <1>15 DEF Device
  <1>16. ASSUME NEW l \in Lines, Acknowledge(l) PROVE SectionInv'
    BY <1>16 DEF Acknowledge
  <1>17. CASE Look
    BY <1>17 DEF Look
  <1>18. CASE Deliver
    BY <1>18 DEF Deliver, Post
  <1>19. CASE MaskUnbound
    BY <1>19 DEF MaskUnbound
  <1>20. CASE End
    BY <1>20 DEF End
  <1> QED
    BY <1>0, <1>1, <1>2, <1>3, <1>4, <1>5, <1>6, <1>7, <1>8, <1>9, <1>10, <1>11, <1>12, <1>13, <1>14, <1>15, <1>16, <1>17, <1>18, <1>19, <1>20 DEF Next, Calls, Interrupts

\* The handler holds the binding it read until its end.
LEMMA HandlerStep ==
  ASSUME TypeOK, References, HandlerInv, [Next]_vars
  PROVE HandlerInv'
  <1> USE BindingAssumption DEF TypeOK, References, HandlerInv, Rest, Free, gic, counts, chan
  <1>0. CASE UNCHANGED vars
    BY <1>0 DEF vars
  <1>1. ASSUME NEW b \in Bindings, NEW l \in Lines, Bind(b, l) PROVE HandlerInv'
    BY <1>1 DEF Bind
  <1>2. ASSUME NEW b \in Bindings, SetTrigger(b) PROVE HandlerInv'
    BY <1>2 DEF SetTrigger
  <1>3. ASSUME NEW b \in Bindings, Open(b) PROVE HandlerInv'
    BY <1>3 DEF Open
  <1>4. ASSUME NEW b \in Bindings, RetainHandle(b) PROVE HandlerInv'
    BY <1>4 DEF RetainHandle
  <1>5. ASSUME NEW b \in Bindings, ReleaseHandle(b) PROVE HandlerInv'
    BY <1>5 DEF ReleaseHandle, Release
  <1>6. ASSUME NEW b \in Bindings, MaskLine(b) PROVE HandlerInv'
    BY <1>6 DEF MaskLine
  <1>7. ASSUME NEW b \in Bindings, UnlinkLine(b) PROVE HandlerInv'
    BY <1>7 DEF UnlinkLine, Release
  <1>8. ASSUME NEW b \in Bindings, Ack(b) PROVE HandlerInv'
    BY <1>8 DEF Ack
  <1>9. ASSUME NEW b \in Bindings, TakeSlot(b) PROVE HandlerInv'
    BY <1>9 DEF TakeSlot, Release
  <1>10. ASSUME NEW b \in Bindings, Clean(b) PROVE HandlerInv'
    BY <1>10 DEF Clean
  <1>11. ASSUME NEW b \in Bindings, Reclaim(b) PROVE HandlerInv'
    BY <1>11 DEF Reclaim
  <1>12. CASE Wait
    BY <1>12 DEF Wait
  <1>13. CASE CloseChannel
    BY <1>13 DEF CloseChannel
  <1>14. CASE WakeClosed
    BY <1>14 DEF WakeClosed
  <1>15. ASSUME NEW l \in Lines, Device(l) PROVE HandlerInv'
    BY <1>15 DEF Device
  <1>16. ASSUME NEW l \in Lines, Acknowledge(l) PROVE HandlerInv'
    BY <1>16 DEF Acknowledge
  <1>17. CASE Look
    BY <1>17 DEF Look
  <1>18. CASE Deliver
    BY <1>18 DEF Deliver, Post
  <1>19. CASE MaskUnbound
    BY <1>19 DEF MaskUnbound
  <1>20. CASE End
    BY <1>20 DEF End
  <1> QED
    BY <1>0, <1>1, <1>2, <1>3, <1>4, <1>5, <1>6, <1>7, <1>8, <1>9, <1>10, <1>11, <1>12, <1>13, <1>14, <1>15, <1>16, <1>17, <1>18, <1>19, <1>20 DEF Next, Calls, Interrupts

\* No count falls below zero, and a binding that goes has none.
LEMMA CountStep ==
  ASSUME TypeOK, References, SectionInv, HandlerInv, CountInv, [Next]_vars
  PROVE CountInv'
  <1> USE BindingAssumption DEF TypeOK, References, SectionInv, HandlerInv, CountInv, Free, gic, counts, chan
  <1>0. CASE UNCHANGED vars
    BY <1>0 DEF vars
  <1>1. ASSUME NEW b \in Bindings, NEW l \in Lines, Bind(b, l) PROVE CountInv'
    BY <1>1 DEF Bind
  <1>2. ASSUME NEW b \in Bindings, SetTrigger(b) PROVE CountInv'
    BY <1>2 DEF SetTrigger
  <1>3. ASSUME NEW b \in Bindings, Open(b) PROVE CountInv'
    BY <1>3 DEF Open
  <1>4. ASSUME NEW b \in Bindings, RetainHandle(b) PROVE CountInv'
    BY <1>4 DEF RetainHandle
  <1>5. ASSUME NEW b \in Bindings, ReleaseHandle(b) PROVE CountInv'
    BY <1>5 DEF ReleaseHandle, Release
  <1>6. ASSUME NEW b \in Bindings, MaskLine(b) PROVE CountInv'
    BY <1>6 DEF MaskLine
  <1>7. ASSUME NEW b \in Bindings, UnlinkLine(b) PROVE CountInv'
    BY <1>7 DEF UnlinkLine, Release
  <1>8. ASSUME NEW b \in Bindings, Ack(b) PROVE CountInv'
    BY <1>8 DEF Ack
  <1>9. ASSUME NEW b \in Bindings, TakeSlot(b) PROVE CountInv'
    BY <1>9 DEF TakeSlot, Release
  <1>10. ASSUME NEW b \in Bindings, Clean(b) PROVE CountInv'
    BY <1>10 DEF Clean
  <1>11. ASSUME NEW b \in Bindings, Reclaim(b) PROVE CountInv'
    BY <1>11 DEF Reclaim
  <1>12. CASE Wait
    BY <1>12 DEF Wait
  <1>13. CASE CloseChannel
    BY <1>13 DEF CloseChannel
  <1>14. CASE WakeClosed
    BY <1>14 DEF WakeClosed
  <1>15. ASSUME NEW l \in Lines, Device(l) PROVE CountInv'
    BY <1>15 DEF Device
  <1>16. ASSUME NEW l \in Lines, Acknowledge(l) PROVE CountInv'
    BY <1>16 DEF Acknowledge
  <1>17. CASE Look
    BY <1>17 DEF Look
  <1>18. CASE Deliver
    BY <1>18 DEF Deliver, Post
  <1>19. CASE MaskUnbound
    BY <1>19 DEF MaskUnbound
  <1>20. CASE End
    BY <1>20 DEF End
  <1> QED
    BY <1>0, <1>1, <1>2, <1>3, <1>4, <1>5, <1>6, <1>7, <1>8, <1>9, <1>10, <1>11, <1>12, <1>13, <1>14, <1>15, <1>16, <1>17, <1>18, <1>19, <1>20 DEF Next, Calls, Interrupts

\* A post or a mask by an interrupt finds its binding referred to.
LEMMA PostsStep ==
  ASSUME TypeOK, References, MaskedStaysShut, SectionInv, HandlerInv, CountInv, [Next]_vars
  PROVE PostsToBound
  <1> USE BindingAssumption DEF PostsToBound, TypeOK, References, MaskedStaysShut, SectionInv, HandlerInv, CountInv, Free, gic, counts, chan
  <1>0. CASE UNCHANGED vars
    BY <1>0 DEF vars
  <1>1. ASSUME NEW b \in Bindings, NEW l \in Lines, Bind(b, l) PROVE PostsToBound
    BY <1>1 DEF Bind
  <1>2. ASSUME NEW b \in Bindings, SetTrigger(b) PROVE PostsToBound
    BY <1>2 DEF SetTrigger
  <1>3. ASSUME NEW b \in Bindings, Open(b) PROVE PostsToBound
    BY <1>3 DEF Open
  <1>4. ASSUME NEW b \in Bindings, RetainHandle(b) PROVE PostsToBound
    BY <1>4 DEF RetainHandle
  <1>5. ASSUME NEW b \in Bindings, ReleaseHandle(b) PROVE PostsToBound
    BY <1>5 DEF ReleaseHandle, Release
  <1>6. ASSUME NEW b \in Bindings, MaskLine(b) PROVE PostsToBound
    BY <1>6 DEF MaskLine
  <1>7. ASSUME NEW b \in Bindings, UnlinkLine(b) PROVE PostsToBound
    BY <1>7 DEF UnlinkLine, Release
  <1>8. ASSUME NEW b \in Bindings, Ack(b) PROVE PostsToBound
    BY <1>8 DEF Ack
  <1>9. ASSUME NEW b \in Bindings, TakeSlot(b) PROVE PostsToBound
    BY <1>9 DEF TakeSlot, Release
  <1>10. ASSUME NEW b \in Bindings, Clean(b) PROVE PostsToBound
    BY <1>10 DEF Clean
  <1>11. ASSUME NEW b \in Bindings, Reclaim(b) PROVE PostsToBound
    BY <1>11 DEF Reclaim
  <1>12. CASE Wait
    BY <1>12 DEF Wait
  <1>13. CASE CloseChannel
    BY <1>13 DEF CloseChannel
  <1>14. CASE WakeClosed
    BY <1>14 DEF WakeClosed
  <1>15. ASSUME NEW l \in Lines, Device(l) PROVE PostsToBound
    BY <1>15 DEF Device
  <1>16. ASSUME NEW l \in Lines, Acknowledge(l) PROVE PostsToBound
    BY <1>16 DEF Acknowledge
  <1>17. CASE Look
    BY <1>17 DEF Look
  <1>18. CASE Deliver
    BY <1>18 DEF Deliver, Post
  <1>19. CASE MaskUnbound
    BY <1>19 DEF MaskUnbound
  <1>20. CASE End
    BY <1>20 DEF End
  <1> QED
    BY <1>0, <1>1, <1>2, <1>3, <1>4, <1>5, <1>6, <1>7, <1>8, <1>9, <1>10, <1>11, <1>12, <1>13, <1>14, <1>15, <1>16, <1>17, <1>18, <1>19, <1>20 DEF Next, Calls, Interrupts

\* No step opens the line of a masked binding whose channel closed.
LEMMA StaysStep ==
  ASSUME TypeOK, References, MaskedStaysShut, SectionInv, HandlerInv, CountInv, [Next]_vars
  PROVE StaysMasked
  <1> USE BindingAssumption DEF StaysMasked, TypeOK, References, MaskedStaysShut, SectionInv, HandlerInv, CountInv, Free, gic, counts, chan
  <1>0. CASE UNCHANGED vars
    BY <1>0 DEF vars
  <1>1. ASSUME NEW b \in Bindings, NEW l \in Lines, Bind(b, l) PROVE StaysMasked
    BY <1>1 DEF Bind
  <1>2. ASSUME NEW b \in Bindings, SetTrigger(b) PROVE StaysMasked
    BY <1>2 DEF SetTrigger
  <1>3. ASSUME NEW b \in Bindings, Open(b) PROVE StaysMasked
    BY <1>3 DEF Open
  <1>4. ASSUME NEW b \in Bindings, RetainHandle(b) PROVE StaysMasked
    BY <1>4 DEF RetainHandle
  <1>5. ASSUME NEW b \in Bindings, ReleaseHandle(b) PROVE StaysMasked
    BY <1>5 DEF ReleaseHandle, Release
  <1>6. ASSUME NEW b \in Bindings, MaskLine(b) PROVE StaysMasked
    BY <1>6 DEF MaskLine
  <1>7. ASSUME NEW b \in Bindings, UnlinkLine(b) PROVE StaysMasked
    BY <1>7 DEF UnlinkLine, Release
  <1>8. ASSUME NEW b \in Bindings, Ack(b) PROVE StaysMasked
    BY <1>8 DEF Ack
  <1>9. ASSUME NEW b \in Bindings, TakeSlot(b) PROVE StaysMasked
    BY <1>9 DEF TakeSlot, Release
  <1>10. ASSUME NEW b \in Bindings, Clean(b) PROVE StaysMasked
    BY <1>10 DEF Clean
  <1>11. ASSUME NEW b \in Bindings, Reclaim(b) PROVE StaysMasked
    BY <1>11 DEF Reclaim
  <1>12. CASE Wait
    BY <1>12 DEF Wait
  <1>13. CASE CloseChannel
    BY <1>13 DEF CloseChannel
  <1>14. CASE WakeClosed
    BY <1>14 DEF WakeClosed
  <1>15. ASSUME NEW l \in Lines, Device(l) PROVE StaysMasked
    BY <1>15 DEF Device
  <1>16. ASSUME NEW l \in Lines, Acknowledge(l) PROVE StaysMasked
    BY <1>16 DEF Acknowledge
  <1>17. CASE Look
    BY <1>17 DEF Look
  <1>18. CASE Deliver
    BY <1>18 DEF Deliver, Post
  <1>19. CASE MaskUnbound
    BY <1>19 DEF MaskUnbound
  <1>20. CASE End
    BY <1>20 DEF End
  <1> QED
    BY <1>0, <1>1, <1>2, <1>3, <1>4, <1>5, <1>6, <1>7, <1>8, <1>9, <1>10, <1>11, <1>12, <1>13, <1>14, <1>15, <1>16, <1>17, <1>18, <1>19, <1>20 DEF Next, Calls, Interrupts

\* The trigger of a line is written while the line is shut.
LEMMA TriggerStep ==
  ASSUME TypeOK, References, MaskedStaysShut, SectionInv, HandlerInv, CountInv, [Next]_vars
  PROVE TriggersShut
  <1> USE BindingAssumption DEF TriggersShut, TypeOK, References, MaskedStaysShut, SectionInv, HandlerInv, CountInv, Free, gic, counts, chan
  <1>0. CASE UNCHANGED vars
    BY <1>0 DEF vars
  <1>1. ASSUME NEW b \in Bindings, NEW l \in Lines, Bind(b, l) PROVE TriggersShut
    BY <1>1 DEF Bind
  <1>2. ASSUME NEW b \in Bindings, SetTrigger(b) PROVE TriggersShut
    BY <1>2 DEF SetTrigger
  <1>3. ASSUME NEW b \in Bindings, Open(b) PROVE TriggersShut
    BY <1>3 DEF Open
  <1>4. ASSUME NEW b \in Bindings, RetainHandle(b) PROVE TriggersShut
    BY <1>4 DEF RetainHandle
  <1>5. ASSUME NEW b \in Bindings, ReleaseHandle(b) PROVE TriggersShut
    BY <1>5 DEF ReleaseHandle, Release
  <1>6. ASSUME NEW b \in Bindings, MaskLine(b) PROVE TriggersShut
    BY <1>6 DEF MaskLine
  <1>7. ASSUME NEW b \in Bindings, UnlinkLine(b) PROVE TriggersShut
    BY <1>7 DEF UnlinkLine, Release
  <1>8. ASSUME NEW b \in Bindings, Ack(b) PROVE TriggersShut
    BY <1>8 DEF Ack
  <1>9. ASSUME NEW b \in Bindings, TakeSlot(b) PROVE TriggersShut
    BY <1>9 DEF TakeSlot, Release
  <1>10. ASSUME NEW b \in Bindings, Clean(b) PROVE TriggersShut
    BY <1>10 DEF Clean
  <1>11. ASSUME NEW b \in Bindings, Reclaim(b) PROVE TriggersShut
    BY <1>11 DEF Reclaim
  <1>12. CASE Wait
    BY <1>12 DEF Wait
  <1>13. CASE CloseChannel
    BY <1>13 DEF CloseChannel
  <1>14. CASE WakeClosed
    BY <1>14 DEF WakeClosed
  <1>15. ASSUME NEW l \in Lines, Device(l) PROVE TriggersShut
    BY <1>15 DEF Device
  <1>16. ASSUME NEW l \in Lines, Acknowledge(l) PROVE TriggersShut
    BY <1>16 DEF Acknowledge
  <1>17. CASE Look
    BY <1>17 DEF Look
  <1>18. CASE Deliver
    BY <1>18 DEF Deliver, Post
  <1>19. CASE MaskUnbound
    BY <1>19 DEF MaskUnbound
  <1>20. CASE End
    BY <1>20 DEF End
  <1> QED
    BY <1>0, <1>1, <1>2, <1>3, <1>4, <1>5, <1>6, <1>7, <1>8, <1>9, <1>10, <1>11, <1>12, <1>13, <1>14, <1>15, <1>16, <1>17, <1>18, <1>19, <1>20 DEF Next, Calls, Interrupts

\* A source goes with the portion of its binding, and with nothing else.
LEMMA SlotsStep ==
  ASSUME TypeOK, References, SectionInv, SlotsComeBack, [Next]_vars
  PROVE SlotsComeBack'
  <1> USE BindingAssumption DEF SlotsComeBack, Free, gic, counts, chan
  <1> IsFiniteSet(Uncleaned)
    BY FS_Subset DEF Uncleaned
  <1>0. CASE UNCHANGED vars
    BY <1>0 DEF vars, Uncleaned
  <1>1. ASSUME NEW b \in Bindings, NEW l \in Lines, Bind(b, l) PROVE SlotsComeBack'
    <2>1. Uncleaned' = Uncleaned \union {b} /\ b \notin Uncleaned
      BY <1>1 DEF Uncleaned, TypeOK, Bind
    <2>2. Cardinality(Uncleaned') = Cardinality(Uncleaned) + 1
      BY <2>1, FS_AddElement
    <2> QED
      BY <2>2, <1>1, FS_CardinalityType DEF Bind, TypeOK
  <1>2. ASSUME NEW b \in Bindings, SetTrigger(b) PROVE SlotsComeBack'
    <2>1. Uncleaned' = Uncleaned
      BY <1>2 DEF Uncleaned, TypeOK, SetTrigger
    <2> QED
      BY <2>1, <1>2 DEF SetTrigger, TypeOK
  <1>3. ASSUME NEW b \in Bindings, Open(b) PROVE SlotsComeBack'
    <2>1. Uncleaned' = Uncleaned
      BY <1>3 DEF Uncleaned, TypeOK, Open
    <2> QED
      BY <2>1, <1>3 DEF Open, TypeOK
  <1>4. ASSUME NEW b \in Bindings, RetainHandle(b) PROVE SlotsComeBack'
    <2>1. Uncleaned' = Uncleaned
      BY <1>4 DEF Uncleaned, TypeOK, RetainHandle
    <2> QED
      BY <2>1, <1>4 DEF RetainHandle, TypeOK
  <1>5. ASSUME NEW b \in Bindings, ReleaseHandle(b) PROVE SlotsComeBack'
    <2>1. Uncleaned' = Uncleaned
      BY <1>5 DEF Uncleaned, TypeOK, ReleaseHandle
    <2> QED
      BY <2>1, <1>5 DEF ReleaseHandle, TypeOK
  <1>6. ASSUME NEW b \in Bindings, MaskLine(b) PROVE SlotsComeBack'
    <2>1. Uncleaned' = Uncleaned
      BY <1>6 DEF Uncleaned, TypeOK, MaskLine
    <2> QED
      BY <2>1, <1>6 DEF MaskLine, TypeOK
  <1>7. ASSUME NEW b \in Bindings, UnlinkLine(b) PROVE SlotsComeBack'
    <2>1. Uncleaned' = Uncleaned
      BY <1>7 DEF Uncleaned, TypeOK, UnlinkLine, SectionInv
    <2> QED
      BY <2>1, <1>7 DEF UnlinkLine, TypeOK
  <1>8. ASSUME NEW b \in Bindings, Ack(b) PROVE SlotsComeBack'
    <2>1. Uncleaned' = Uncleaned
      BY <1>8 DEF Uncleaned, TypeOK, Ack
    <2> QED
      BY <2>1, <1>8 DEF Ack, TypeOK
  <1>9. ASSUME NEW b \in Bindings, TakeSlot(b) PROVE SlotsComeBack'
    <2>1. Uncleaned' = Uncleaned
      BY <1>9 DEF Uncleaned, TypeOK, TakeSlot
    <2> QED
      BY <2>1, <1>9 DEF TakeSlot, TypeOK
  <1>10. ASSUME NEW b \in Bindings, Clean(b) PROVE SlotsComeBack'
    <2>1. Uncleaned' = Uncleaned \ {b} /\ b \in Uncleaned
      BY <1>10 DEF Uncleaned, TypeOK, Clean, References
    <2>2. Cardinality(Uncleaned') = Cardinality(Uncleaned) - 1
      BY <2>1, FS_RemoveElement
    <2> QED
      BY <2>2, <1>10, FS_CardinalityType DEF Clean, TypeOK
  <1>11. ASSUME NEW b \in Bindings, Reclaim(b) PROVE SlotsComeBack'
    <2>1. Uncleaned' = Uncleaned
      BY <1>11 DEF Uncleaned, TypeOK, Reclaim
    <2> QED
      BY <2>1, <1>11 DEF Reclaim, TypeOK
  <1>12. CASE Wait
    <2>1. Uncleaned' = Uncleaned
      BY <1>12 DEF Uncleaned, TypeOK, Wait
    <2> QED
      BY <2>1, <1>12 DEF Wait, TypeOK
  <1>13. CASE CloseChannel
    <2>1. Uncleaned' = Uncleaned
      BY <1>13 DEF Uncleaned, TypeOK, CloseChannel
    <2> QED
      BY <2>1, <1>13 DEF CloseChannel, TypeOK
  <1>14. CASE WakeClosed
    <2>1. Uncleaned' = Uncleaned
      BY <1>14 DEF Uncleaned, TypeOK, WakeClosed
    <2> QED
      BY <2>1, <1>14 DEF WakeClosed, TypeOK
  <1>15. ASSUME NEW l \in Lines, Device(l) PROVE SlotsComeBack'
    <2>1. Uncleaned' = Uncleaned
      BY <1>15 DEF Uncleaned, TypeOK, Device
    <2> QED
      BY <2>1, <1>15 DEF Device, TypeOK
  <1>16. ASSUME NEW l \in Lines, Acknowledge(l) PROVE SlotsComeBack'
    <2>1. Uncleaned' = Uncleaned
      BY <1>16 DEF Uncleaned, TypeOK, Acknowledge
    <2> QED
      BY <2>1, <1>16 DEF Acknowledge, TypeOK
  <1>17. CASE Look
    <2>1. Uncleaned' = Uncleaned
      BY <1>17 DEF Uncleaned, TypeOK, Look
    <2> QED
      BY <2>1, <1>17 DEF Look, TypeOK
  <1>18. CASE Deliver
    <2>1. Uncleaned' = Uncleaned
      BY <1>18 DEF Uncleaned, TypeOK, Deliver
    <2> QED
      BY <2>1, <1>18 DEF Deliver, TypeOK
  <1>19. CASE MaskUnbound
    <2>1. Uncleaned' = Uncleaned
      BY <1>19 DEF Uncleaned, TypeOK, MaskUnbound
    <2> QED
      BY <2>1, <1>19 DEF MaskUnbound, TypeOK
  <1>20. CASE End
    <2>1. Uncleaned' = Uncleaned
      BY <1>20 DEF Uncleaned, TypeOK, End
    <2> QED
      BY <2>1, <1>20 DEF End, TypeOK
  <1> QED
    BY <1>0, <1>1, <1>2, <1>3, <1>4, <1>5, <1>6, <1>7, <1>8, <1>9, <1>10, <1>11, <1>12, <1>13, <1>14, <1>15, <1>16, <1>17, <1>18, <1>19, <1>20 DEF Next, Calls, Interrupts

\* Each step is one of Reclamation or leaves its variables alone.
LEMMA MemoryStep ==
  ASSUME TypeOK, References, MaskedStaysShut, SectionInv, HandlerInv, CountInv, [Next]_vars
  PROVE [Memory!Next]_<<life, HeldByHandler>>
  <1> USE BindingAssumption DEF Free, gic, counts, chan
  <1>0. CASE UNCHANGED vars
    BY <1>0 DEF vars, HeldByHandler
  <1>1. ASSUME NEW b \in Bindings, NEW l \in Lines, Bind(b, l) PROVE [Memory!Next]_<<life, HeldByHandler>>
    <2>1. Memory!Link(b)
      BY <1>1 DEF Bind, Memory!Link, HeldByHandler, TypeOK, References, MaskedStaysShut, SectionInv, HandlerInv, CountInv
    <2> QED
      BY <2>1 DEF Memory!Next
  <1>2. ASSUME NEW b \in Bindings, SetTrigger(b) PROVE [Memory!Next]_<<life, HeldByHandler>>
    <2>1. UNCHANGED <<life, HeldByHandler>>
      BY <1>2 DEF SetTrigger, HeldByHandler, TypeOK, HandlerInv
    <2> QED
      BY <2>1
  <1>3. ASSUME NEW b \in Bindings, Open(b) PROVE [Memory!Next]_<<life, HeldByHandler>>
    <2>1. UNCHANGED <<life, HeldByHandler>>
      BY <1>3 DEF Open, HeldByHandler, TypeOK, HandlerInv
    <2> QED
      BY <2>1
  <1>4. ASSUME NEW b \in Bindings, RetainHandle(b) PROVE [Memory!Next]_<<life, HeldByHandler>>
    <2>1. UNCHANGED <<life, HeldByHandler>>
      BY <1>4 DEF RetainHandle, HeldByHandler, TypeOK, HandlerInv
    <2> QED
      BY <2>1
  <1>5. ASSUME NEW b \in Bindings, ReleaseHandle(b) PROVE [Memory!Next]_<<life, HeldByHandler>>
    <2>1. UNCHANGED <<life, HeldByHandler>>
      BY <1>5 DEF ReleaseHandle, HeldByHandler, TypeOK, HandlerInv
    <2> QED
      BY <2>1
  <1>6. ASSUME NEW b \in Bindings, MaskLine(b) PROVE [Memory!Next]_<<life, HeldByHandler>>
    <2>1. UNCHANGED <<life, HeldByHandler>>
      BY <1>6 DEF MaskLine, HeldByHandler, TypeOK, HandlerInv
    <2> QED
      BY <2>1
  <1>7. ASSUME NEW b \in Bindings, UnlinkLine(b) PROVE [Memory!Next]_<<life, HeldByHandler>>
    <2>1. Memory!Unlink(b)
      BY <1>7 DEF UnlinkLine, Memory!Unlink, HeldByHandler, TypeOK, References, MaskedStaysShut, SectionInv, HandlerInv, CountInv
    <2> QED
      BY <2>1 DEF Memory!Next
  <1>8. ASSUME NEW b \in Bindings, Ack(b) PROVE [Memory!Next]_<<life, HeldByHandler>>
    <2>1. UNCHANGED <<life, HeldByHandler>>
      BY <1>8 DEF Ack, HeldByHandler, TypeOK, HandlerInv
    <2> QED
      BY <2>1
  <1>9. ASSUME NEW b \in Bindings, TakeSlot(b) PROVE [Memory!Next]_<<life, HeldByHandler>>
    <2>1. UNCHANGED <<life, HeldByHandler>>
      BY <1>9 DEF TakeSlot, HeldByHandler, TypeOK, HandlerInv
    <2> QED
      BY <2>1
  <1>10. ASSUME NEW b \in Bindings, Clean(b) PROVE [Memory!Next]_<<life, HeldByHandler>>
    <2>1. Memory!Retire(b)
      BY <1>10 DEF Clean, Memory!Retire, HeldByHandler, TypeOK, References, MaskedStaysShut, SectionInv, HandlerInv, CountInv
    <2> QED
      BY <2>1 DEF Memory!Next
  <1>11. ASSUME NEW b \in Bindings, Reclaim(b) PROVE [Memory!Next]_<<life, HeldByHandler>>
    <2>1. HeldByHandler' = HeldByHandler
      BY <1>11 DEF Reclaim, HeldByHandler
    <2>2. life[b] = "retired" /\ \A c \in {"handler"} : b \notin HeldByHandler[c]
      BY <1>11 DEF Reclaim, HeldByHandler
    <2>3. life' = [x \in Bindings |-> IF x \in {b} THEN "free" ELSE life[x]]
      BY <1>11 DEF Reclaim, TypeOK
    <2>4. Memory!Free({b})
      BY <2>1, <2>2, <2>3 DEF Memory!Free
    <2> QED
      BY <2>4 DEF Memory!Next
  <1>12. CASE Wait
    <2>1. UNCHANGED <<life, HeldByHandler>>
      BY <1>12 DEF Wait, HeldByHandler, TypeOK, HandlerInv
    <2> QED
      BY <2>1
  <1>13. CASE CloseChannel
    <2>1. UNCHANGED <<life, HeldByHandler>>
      BY <1>13 DEF CloseChannel, HeldByHandler, TypeOK, HandlerInv
    <2> QED
      BY <2>1
  <1>14. CASE WakeClosed
    <2>1. UNCHANGED <<life, HeldByHandler>>
      BY <1>14 DEF WakeClosed, HeldByHandler, TypeOK, HandlerInv
    <2> QED
      BY <2>1
  <1>15. ASSUME NEW l \in Lines, Device(l) PROVE [Memory!Next]_<<life, HeldByHandler>>
    <2>1. UNCHANGED <<life, HeldByHandler>>
      BY <1>15 DEF Device, HeldByHandler, TypeOK, HandlerInv
    <2> QED
      BY <2>1
  <1>16. ASSUME NEW l \in Lines, Acknowledge(l) PROVE [Memory!Next]_<<life, HeldByHandler>>
    <2>1. handler'.b = NoBinding /\ handler.b = NoBinding /\ life' = life
      BY <1>16 DEF Acknowledge, Rest
    <2> QED
      BY <2>1 DEF HeldByHandler
  <1>17. CASE Look
    <2>1. CASE lines[handler.line] = NoBinding
      BY <1>17, <2>1 DEF Look, HeldByHandler, TypeOK, HandlerInv
    <2>2. CASE lines[handler.line] # NoBinding
      <3> DEFINE b == lines[handler.line]
      <3>1. b \in Bindings /\ life[b] = "linked"
        BY <2>2 DEF TypeOK, References
      <3>2. handler'.b = b /\ handler.b = NoBinding /\ life' = life
        BY <1>17, <2>2 DEF Look, TypeOK, HandlerInv
      <3>3. HeldByHandler' = [HeldByHandler EXCEPT !["handler"] = @ \union {b}]
        BY <3>1, <3>2 DEF HeldByHandler
      <3>4. Memory!Read("handler", b)
        BY <3>1, <3>2, <3>3 DEF Memory!Read
      <3> QED
        BY <3>1, <3>4 DEF Memory!Next
    <2> QED
      BY <2>1, <2>2
  <1>18. CASE Deliver
    <2>1. handler'.b = handler.b
      <3>1. handler \in [at : {"rest", "look", "deliver", "mask", "end"}, line : Lines, b : Bindings \union {NoBinding}]
        BY DEF TypeOK
      <3> QED
        BY <3>1, <1>18 DEF Deliver
    <2>2. life' = life
      BY <1>18 DEF Deliver
    <2> QED
      BY <2>1, <2>2 DEF HeldByHandler
  <1>19. CASE MaskUnbound
    <2>1. UNCHANGED <<life, HeldByHandler>>
      BY <1>19 DEF MaskUnbound, HeldByHandler, TypeOK, HandlerInv
    <2> QED
      BY <2>1
  <1>20. CASE End
    <2>1. HeldByHandler' = [HeldByHandler EXCEPT !["handler"] = {}] /\ life' = life
      BY <1>20 DEF End, HeldByHandler, Rest
    <2>2. Memory!LetGo("handler")
      BY <2>1 DEF Memory!LetGo
    <2> QED
      BY <2>2 DEF Memory!Next
  <1> QED
    BY <1>0, <1>1, <1>2, <1>3, <1>4, <1>5, <1>6, <1>7, <1>8, <1>9, <1>10, <1>11, <1>12, <1>13, <1>14, <1>15, <1>16, <1>17, <1>18, <1>19, <1>20 DEF Next, Calls, Interrupts

\* Every step keeps the inductive invariant.
LEMMA IrqStep == IrqInductive /\ [Next]_vars => IrqInductive'
  BY IrqTypeStep, ReferencesStep, MaskedStep, SectionStep, HandlerStep, CountStep
     DEF IrqInductive

\* The inductive invariant holds of every behaviour: the counts of every
\* binding, the entry of its line and the mask of its line agree with each
\* other, whoever is inside a section and wherever the handler is.
THEOREM IrqInvariance == Spec => []IrqInductive
  <1>1. IrqInductive /\ UNCHANGED vars => IrqInductive'
    BY IrqStep
  <1> QED
    BY IrqInit, IrqStep, <1>1, PTL DEF Spec

\* The references of a binding are its handles and its queued slot
\* (irq::release).
THEOREM IrqReferences == Spec => []References
  <1>1. IrqInductive => References
    BY DEF IrqInductive
  <1> QED
    BY IrqInvariance, <1>1, PTL

\* A masked line stays shut until irq_ack, and an unbound line is shut.
THEOREM IrqMasked == Spec => []MaskedStaysShut
  <1>1. IrqInductive => MaskedStaysShut
    BY DEF IrqInductive
  <1> QED
    BY IrqInvariance, <1>1, PTL

\* deliver posts only into a binding that its line names and that somebody
\* refers to, for any number of bindings and any order of steps.
THEOREM IrqDelivers == Spec => DeliversToBound
  <1>1. IrqInductive /\ [Next]_vars => [PostsToBound]_vars
    BY PostsStep DEF IrqInductive
  <1> QED
    BY IrqInvariance, <1>1, PTL DEF Spec, DeliversToBound

\* The line of a masked binding stays shut once the channel closed.
THEOREM IrqClosed == Spec => ClosedKeepsMasked
  <1>1. IrqInductive /\ [Next]_vars => [StaysMasked]_vars
    BY StaysStep DEF IrqInductive
  <1> QED
    BY IrqInvariance, <1>1, PTL DEF Spec, ClosedKeepsMasked

\* GICD_ICFGR of a line is written only while the line is masked.
THEOREM IrqTrigger == Spec => TriggerWhileShut
  <1>1. IrqInductive /\ [Next]_vars => [TriggersShut]_vars
    BY TriggerStep DEF IrqInductive
  <1> QED
    BY IrqInvariance, <1>1, PTL DEF Spec, TriggerWhileShut

\* Channel::sources counts the bindings that were not cleaned, and the slot
\* of the channel itself.
THEOREM IrqSlots == Spec => []SlotsComeBack
  <1>1. Init => SlotsComeBack
    <2> SUFFICES ASSUME Init PROVE SlotsComeBack
      OBVIOUS
    <2>1. Uncleaned = {}
      BY DEF Init, Uncleaned
    <2> QED
      BY <2>1, FS_EmptySet DEF Init, SlotsComeBack
  <1>2. IrqInductive /\ SlotsComeBack /\ [Next]_vars => SlotsComeBack'
    BY SlotsStep DEF IrqInductive
  <1> QED
    BY IrqInvariance, <1>1, <1>2, PTL DEF Spec

\* The bindings of interrupt lines live and die as Reclamation allows.
THEOREM IrqMemory == Spec => FollowsReclamation
  <1>1. Init => Memory!Init
    BY BindingAssumption DEF Init, Memory!Init, HeldByHandler, Rest
  <1>2. IrqInductive /\ [Next]_vars => [Memory!Next]_<<life, HeldByHandler>>
    BY MemoryStep DEF IrqInductive
  <1> QED
    BY IrqInvariance, <1>1, <1>2, PTL DEF Spec, FollowsReclamation, Memory!Spec, Memory!vars

=============================================================================
