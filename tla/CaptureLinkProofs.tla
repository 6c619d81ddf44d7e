------------------------- MODULE CaptureLinkProofs --------------------------
(***************************************************************************)
(* Proofs about CaptureLink, for any number of calls, links and deaths of  *)
(* the capture process.                                                    *)
(*                                                                         *)
(* That a handler runs at most once is not inductive: it rests on where    *)
(* the frame of a call can be, on the wire or in the pool of the capture   *)
(* process, and on a caller having none there before it waits.  That a     *)
(* waiting caller has a reader rests on _pending holding only calls of     *)
(* links that are read, and that a retiring link harms no other call rests *)
(* on link numbers never coming back.                                      *)
(***************************************************************************)
EXTENDS CaptureLink, TLAPS

\* The link in use is the last one made, and it has a reader.
CurrentInv == cur # NoLink => cur = gen /\ reader[cur] = "reading"

\* Where a caller stands, and whether its call is in _pending.
CallerInv ==
  \A c \in Calls :
    /\ place[c] \in {"send", "drop", "wait"} => via[c] \in Links
    /\ via[c] \in Links => via[c] <= gen
    /\ c \in listed =>
         place[c] \in {"send", "wait"} /\ reader[via[c]] = "reading"
    /\ place[c] \in {"send", "wait"} /\ event[c] = "none" => c \in listed

\* The frame of call c is nowhere, and its handler was not run.
Unsent(c) ==
  /\ runs[c] = 0
  /\ \A l \in Links : c \notin requests[l] /\ c \notin work[l]

\* A frame is in one place at a time, and gone once the handler ran; there is
\* none before the caller waits, nor when it was told that nobody was reached.
FrameInv ==
  \A c \in Calls :
    /\ runs[c] <= 1
    /\ \A l, m \in Links :
         /\ c \in requests[l] => runs[c] = 0 /\ c \notin work[m]
         /\ c \in work[l] => runs[c] = 0
         /\ c \in requests[l] /\ c \in requests[m] => l = m
         /\ c \in work[l] /\ c \in work[m] => l = m
         /\ c \in replies[l] => runs[c] = 1
    /\ place[c] \notin {"wait", "done"} => Unsent(c) /\ outcome[c] = "none"
    /\ event[c] = "answer" => runs[c] = 1
    /\ outcome[c] = "answer" => runs[c] = 1
    /\ outcome[c] = "unreachable" => Unsent(c)

\* On its first attempt a call was set to nothing before it was registered,
\* and to "lost" only by a link that is not, and will not be, the one in use.
LossInv ==
  \A c \in Calls :
    attempt[c] = 1 /\ event[c] = "lost" =>
      /\ place[c] \notin {"idle", "ensure", "register"}
      /\ place[c] \in {"send", "drop", "wait"} => via[c] # cur \/ Stopped

IInv == TypeOK /\ CurrentInv /\ CallerInv /\ FrameInv /\ LossInv
-----------------------------------------------------------------------------
(* Every step keeps each part of IInv. *)

\* Every step keeps the types.
LEMMA StepType ==
  ASSUME IInv, [Next]_vars PROVE TypeOK'
  <1> USE LinkAssumption DEF IInv, TypeOK
  <1>1. ASSUME NEW c \in Calls, Begin(c) PROVE TypeOK'
    BY <1>1 DEF Begin, Goto, clientVars, wireVars, serverVars
  <1>2. ASSUME NEW c \in Calls, EnsureUp(c) PROVE TypeOK'
    <2>1. CASE cur # NoLink
      BY <1>2, <2>1 DEF EnsureUp, Goto, clientVars, wireVars, serverVars
    <2>2. CASE cur = NoLink
      <3>1. gen + 1 \in Links /\ gen' \in 0..MaxLinks
        BY <1>2, <2>2 DEF EnsureUp, Dial, MayDial, Links
      <3> QED
        BY SMTT(30), <1>2, <2>2, <3>1 DEF EnsureUp, Goto, Dial
    <2> QED BY <2>1, <2>2
  <1>3. ASSUME NEW c \in Calls, EnsureRaises(c) PROVE TypeOK'
    <2>1. CASE DialRejected
      BY <1>3, <2>1 DEF EnsureRaises, DialRejected, Ends, Goto,
        clientVars, wireVars,
        serverVars
    <2>2. CASE UNCHANGED <<clientVars, wireVars, serverVars>>
      BY <1>3, <2>2 DEF EnsureRaises, DialRejected, Ends, Goto,
        clientVars, wireVars,
        serverVars
    <2> QED BY <2>1, <2>2, <1>3 DEF EnsureRaises
  <1>4. ASSUME NEW c \in Calls, Register(c) PROVE TypeOK'
    <2>1. CASE cur # NoLink
      BY <1>4, <2>1 DEF Register, Again, Ends, Goto, clientVars, wireVars,
        serverVars
    <2>2. CASE cur = NoLink /\ attempt[c] = 1
      BY <1>4, <2>2 DEF Register, Again, Ends, Goto, clientVars, wireVars,
        serverVars
    <2>3. CASE cur = NoLink /\ attempt[c] # 1
      BY SMTT(30), <1>4, <2>3 DEF Register, Again, Ends, Goto, clientVars, wireVars,
        serverVars
    <2> QED BY <2>1, <2>2, <2>3
  <1>5. ASSUME NEW c \in Calls, Send(c) PROVE TypeOK'
    BY ZenonT(60), <1>5 DEF Send, Goto, clientVars, serverVars
  <1>6. ASSUME NEW c \in Calls, SendFails(c) PROVE TypeOK'
    BY <1>6 DEF SendFails, Goto, clientVars, wireVars, serverVars
  <1>7. ASSUME NEW c \in Calls, SendDrops(c) PROVE TypeOK'
    <2>1. /\ cur' \in Links \cup {NoLink}
          /\ listed' \subseteq Calls
          /\ event' \in [Calls -> {"none", "lost", "answer"}]
          /\ link' \in [Links -> {"none", "open", "shut"}]
      BY <1>7 DEF SendDrops, DropLink, Fail, Riding, Shut
    <2>2. /\ place' \in [Calls -> {"idle", "ensure", "register", "send",
                               "drop", "wait", "done"}]
          /\ attempt' \in [Calls -> 1..2]
          /\ via' \in [Calls -> Links \cup {NoLink}]
          /\ outcome' \in [Calls -> {"none", "lost", "answer", "timeout",
                                 "unreachable"}]
      <3>1. CASE attempt[c] = 1
        BY <1>7, <3>1 DEF SendDrops, Again, Goto
      <3>2. CASE attempt[c] # 1
        BY SMTT(30), <1>7, <3>2 DEF SendDrops, Again, Ends, Goto
      <3> QED BY <3>1, <3>2
    <2> QED BY <1>7, <2>1, <2>2 DEF SendDrops, serverVars
  <1>8. ASSUME NEW c \in Calls, Returns(c) PROVE TypeOK'
    BY <1>8 DEF Returns, Ends, clientVars, wireVars, serverVars, Goto
  <1>9. ASSUME NEW c \in Calls, TimesOut(c) PROVE TypeOK'
    BY <1>9 DEF TimesOut, Ends, clientVars, wireVars, serverVars, Goto
  <1>10. ASSUME NEW l \in Links, ReaderEnds(l) PROVE TypeOK'
    BY <1>10 DEF ReaderEnds, Stopped, DropLink, serverVars, Fail, Riding, Shut
  <1>11. ASSUME NEW l \in Links, SessionInstalls(l) PROVE TypeOK'
    BY <1>11 DEF SessionInstalls, clientVars, callVars, wireVars
  <1>12. ASSUME NEW l \in Links, SessionReplaces(l) PROVE TypeOK'
    BY <1>12 DEF SessionReplaces, Shut, clientVars, callVars
  <1>13. ASSUME NEW l \in Links, SessionEnds(l) PROVE TypeOK'
    BY <1>13 DEF SessionEnds, Forget, Shut, clientVars, callVars
  <1>14. ASSUME NEW l \in Links, NEW c \in Calls, ReaderResolves(l, c)
         PROVE  TypeOK'
    BY <1>14 DEF ReaderResolves, Riding, clientVars, serverVars
  <1>15. ASSUME NEW l \in Links, NEW c \in Calls, SessionReads(l, c)
         PROVE  TypeOK'
    BY <1>15 DEF SessionReads, clientVars, callVars
  <1>16. ASSUME NEW l \in Links, NEW c \in Calls, DispatchRuns(l, c)
         PROVE  TypeOK'
    BY <1>16 DEF DispatchRuns, clientVars, callVars
  <1>17. ASSUME Reattach PROVE TypeOK'
    <2>1. CASE Dial
      <3>1. gen + 1 \in Links /\ gen' \in 0..MaxLinks
        BY <2>1 DEF Dial, MayDial, Links
      <3> QED
        BY <1>17, <2>1, <3>1 DEF Reattach, Dial, callVars
    <2>2. CASE DialRejected
      BY <1>17, <2>2 DEF Reattach, DialRejected, callVars, wireVars, serverVars
    <2> QED BY <1>17, <2>1, <2>2 DEF Reattach
  <1>18. ASSUME Close PROVE TypeOK'
    BY <1>18 DEF Close, Stopped, callVars, wireVars, serverVars
  <1>19. ASSUME CloseDrops PROVE TypeOK'
    BY <1>19 DEF CloseDrops, Fail, Shut, serverVars
  <1>20. ASSUME PublishFails PROVE TypeOK'
    BY <1>20 DEF PublishFails, Forget, clientVars, callVars, wireVars
  <1>21. ASSUME ServerStops PROVE TypeOK'
    BY <1>21 DEF ServerStops, Shut, clientVars, callVars
  <1>22. ASSUME ChildDies PROVE TypeOK'
    BY <1>22 DEF ChildDies, clientVars, callVars
  <1>23. ASSUME NEW t \in {"shared", "own"}, Respawn(t) PROVE TypeOK'
    BY <1>23 DEF Respawn, clientVars, callVars, wireVars
  <1>24. ASSUME UNCHANGED vars PROVE TypeOK'
    BY <1>24 DEF vars, clientVars, callVars, wireVars, serverVars
  <1> QED BY <1>1, <1>2, <1>3, <1>4, <1>5, <1>6, <1>7, <1>8, <1>9, <1>10,
      <1>11, <1>12, <1>13, <1>14, <1>15, <1>16, <1>17, <1>18, <1>19, <1>20,
      <1>21, <1>22, <1>23, <1>24 DEF Next, CallStep, LinkStep

\* A link is in use from the moment it is made until it is dropped, and no
\* reader ends without dropping its own.
LEMMA StepCurrent ==
  ASSUME IInv, [Next]_vars PROVE CurrentInv'
  <1> USE LinkAssumption DEF IInv, TypeOK, CurrentInv, Links
  <1>1. ASSUME NEW c \in Calls, Begin(c) PROVE CurrentInv'
    BY <1>1 DEF Begin, Goto, clientVars, wireVars, serverVars
  <1>2. ASSUME NEW c \in Calls, EnsureUp(c) PROVE CurrentInv'
    BY <1>2 DEF EnsureUp, Goto, clientVars, wireVars, serverVars, Dial, MayDial
  <1>3. ASSUME NEW c \in Calls, EnsureRaises(c) PROVE CurrentInv'
    BY <1>3 DEF EnsureRaises, DialRejected, clientVars, wireVars, serverVars,
      Ends, MayDial, Goto
  <1>4. ASSUME NEW c \in Calls, Register(c) PROVE CurrentInv'
    BY <1>4 DEF Register, Again, Goto, clientVars, wireVars, serverVars, Ends
  <1>5. ASSUME NEW c \in Calls, Send(c) PROVE CurrentInv'
    BY <1>5 DEF Send, Goto, clientVars, serverVars
  <1>6. ASSUME NEW c \in Calls, SendFails(c) PROVE CurrentInv'
    BY <1>6 DEF SendFails, Goto, clientVars, wireVars, serverVars
  <1>7. ASSUME NEW c \in Calls, SendDrops(c) PROVE CurrentInv'
    BY <1>7 DEF SendDrops, DropLink, Again, serverVars, Fail, Riding, Shut,
      Goto, Ends
  <1>8. ASSUME NEW c \in Calls, Returns(c) PROVE CurrentInv'
    BY <1>8 DEF Returns, Ends, clientVars, wireVars, serverVars, Goto
  <1>9. ASSUME NEW c \in Calls, TimesOut(c) PROVE CurrentInv'
    BY <1>9 DEF TimesOut, Ends, clientVars, wireVars, serverVars, Goto
  <1>10. ASSUME NEW l \in Links, ReaderEnds(l) PROVE CurrentInv'
    BY <1>10 DEF ReaderEnds, Stopped, DropLink, serverVars, Fail, Riding, Shut
  <1>11. ASSUME NEW l \in Links, SessionInstalls(l) PROVE CurrentInv'
    BY <1>11 DEF SessionInstalls, clientVars, callVars, wireVars
  <1>12. ASSUME NEW l \in Links, SessionReplaces(l) PROVE CurrentInv'
    BY <1>12 DEF SessionReplaces, Shut, clientVars, callVars
  <1>13. ASSUME NEW l \in Links, SessionEnds(l) PROVE CurrentInv'
    BY <1>13 DEF SessionEnds, Forget, Shut, clientVars, callVars
  <1>14. ASSUME NEW l \in Links, NEW c \in Calls, ReaderResolves(l, c)
         PROVE  CurrentInv'
    BY <1>14 DEF ReaderResolves, Riding, clientVars, serverVars
  <1>15. ASSUME NEW l \in Links, NEW c \in Calls, SessionReads(l, c)
         PROVE  CurrentInv'
    BY <1>15 DEF SessionReads, clientVars, callVars
  <1>16. ASSUME NEW l \in Links, NEW c \in Calls, DispatchRuns(l, c)
         PROVE  CurrentInv'
    BY <1>16 DEF DispatchRuns, clientVars, callVars
  <1>17. ASSUME Reattach PROVE CurrentInv'
    BY <1>17 DEF Reattach, Dial, DialRejected, callVars, MayDial, wireVars,
      serverVars
  <1>18. ASSUME Close PROVE CurrentInv'
    BY <1>18 DEF Close, Stopped, callVars, wireVars, serverVars
  <1>19. ASSUME CloseDrops PROVE CurrentInv'
    BY <1>19 DEF CloseDrops, Fail, Shut, serverVars
  <1>20. ASSUME PublishFails PROVE CurrentInv'
    BY <1>20 DEF PublishFails, Forget, clientVars, callVars, wireVars
  <1>21. ASSUME ServerStops PROVE CurrentInv'
    BY <1>21 DEF ServerStops, Shut, clientVars, callVars
  <1>22. ASSUME ChildDies PROVE CurrentInv'
    BY <1>22 DEF ChildDies, clientVars, callVars
  <1>23. ASSUME NEW t \in {"shared", "own"}, Respawn(t) PROVE CurrentInv'
    BY <1>23 DEF Respawn, clientVars, callVars, wireVars
  <1>24. ASSUME UNCHANGED vars PROVE CurrentInv'
    BY <1>24 DEF vars, clientVars, callVars, wireVars, serverVars
  <1> QED BY <1>1, <1>2, <1>3, <1>4, <1>5, <1>6, <1>7, <1>8, <1>9, <1>10,
      <1>11, <1>12, <1>13, <1>14, <1>15, <1>16, <1>17, <1>18, <1>19, <1>20,
      <1>21, <1>22, <1>23, <1>24 DEF Next, CallStep, LinkStep

\* A call enters _pending on the link in use and leaves it with that link's
\* reader, which is told, or with an answer.
LEMMA StepCaller ==
  ASSUME IInv, [Next]_vars PROVE CallerInv'
  <1> USE LinkAssumption DEF IInv, TypeOK, CurrentInv, CallerInv, Links
  <1>1. ASSUME NEW c \in Calls, Begin(c) PROVE CallerInv'
    BY <1>1 DEF Begin, Goto, clientVars, wireVars, serverVars
  <1>2. ASSUME NEW c \in Calls, EnsureUp(c) PROVE CallerInv'
    BY SMTT(30), <1>2 DEF EnsureUp, Goto, clientVars, wireVars, serverVars, Dial, MayDial
  <1>3. ASSUME NEW c \in Calls, EnsureRaises(c) PROVE CallerInv'
    BY <1>3 DEF EnsureRaises, DialRejected, clientVars, wireVars, serverVars,
      Ends, MayDial, Goto
  <1>4. ASSUME NEW c \in Calls, Register(c) PROVE CallerInv'
    BY SMTT(30), <1>4 DEF Register, Again, Goto, clientVars, wireVars, serverVars, Ends
  <1>5. ASSUME NEW c \in Calls, Send(c) PROVE CallerInv'
    BY <1>5 DEF Send, Goto, clientVars, serverVars
  <1>6. ASSUME NEW c \in Calls, SendFails(c) PROVE CallerInv'
    BY <1>6 DEF SendFails, Goto, clientVars, wireVars, serverVars
  <1>7. ASSUME NEW c \in Calls, SendDrops(c) PROVE CallerInv'
    BY <1>7 DEF SendDrops, DropLink, Again, serverVars, Fail, Riding, Shut,
      Goto, Ends
  <1>8. ASSUME NEW c \in Calls, Returns(c) PROVE CallerInv'
    BY <1>8 DEF Returns, Ends, clientVars, wireVars, serverVars, Goto
  <1>9. ASSUME NEW c \in Calls, TimesOut(c) PROVE CallerInv'
    BY <1>9 DEF TimesOut, Ends, clientVars, wireVars, serverVars, Goto
  <1>10. ASSUME NEW l \in Links, ReaderEnds(l) PROVE CallerInv'
    BY <1>10 DEF ReaderEnds, Stopped, DropLink, serverVars, Fail, Riding, Shut
  <1>11. ASSUME NEW l \in Links, SessionInstalls(l) PROVE CallerInv'
    BY <1>11 DEF SessionInstalls, clientVars, callVars, wireVars
  <1>12. ASSUME NEW l \in Links, SessionReplaces(l) PROVE CallerInv'
    BY <1>12 DEF SessionReplaces, Shut, clientVars, callVars
  <1>13. ASSUME NEW l \in Links, SessionEnds(l) PROVE CallerInv'
    BY <1>13 DEF SessionEnds, Forget, Shut, clientVars, callVars
  <1>14. ASSUME NEW l \in Links, NEW c \in Calls, ReaderResolves(l, c)
         PROVE  CallerInv'
    BY <1>14 DEF ReaderResolves, Riding, clientVars, serverVars
  <1>15. ASSUME NEW l \in Links, NEW c \in Calls, SessionReads(l, c)
         PROVE  CallerInv'
    BY <1>15 DEF SessionReads, clientVars, callVars
  <1>16. ASSUME NEW l \in Links, NEW c \in Calls, DispatchRuns(l, c)
         PROVE  CallerInv'
    BY <1>16 DEF DispatchRuns, clientVars, callVars
  <1>17. ASSUME Reattach PROVE CallerInv'
    BY <1>17 DEF Reattach, Dial, DialRejected, callVars, MayDial, wireVars,
      serverVars
  <1>18. ASSUME Close PROVE CallerInv'
    BY <1>18 DEF Close, Stopped, callVars, wireVars, serverVars
  <1>19. ASSUME CloseDrops PROVE CallerInv'
    BY <1>19 DEF CloseDrops, Fail, Shut, serverVars
  <1>20. ASSUME PublishFails PROVE CallerInv'
    BY <1>20 DEF PublishFails, Forget, clientVars, callVars, wireVars
  <1>21. ASSUME ServerStops PROVE CallerInv'
    BY <1>21 DEF ServerStops, Shut, clientVars, callVars
  <1>22. ASSUME ChildDies PROVE CallerInv'
    BY <1>22 DEF ChildDies, clientVars, callVars
  <1>23. ASSUME NEW t \in {"shared", "own"}, Respawn(t) PROVE CallerInv'
    BY <1>23 DEF Respawn, clientVars, callVars, wireVars
  <1>24. ASSUME UNCHANGED vars PROVE CallerInv'
    BY <1>24 DEF vars, clientVars, callVars, wireVars, serverVars
  <1> QED BY <1>1, <1>2, <1>3, <1>4, <1>5, <1>6, <1>7, <1>8, <1>9, <1>10,
      <1>11, <1>12, <1>13, <1>14, <1>15, <1>16, <1>17, <1>18, <1>19, <1>20,
      <1>21, <1>22, <1>23, <1>24 DEF Next, CallStep, LinkStep

\* No step copies a frame, and a second attempt is made only of a call that
\* was not sent.
LEMMA StepFrame ==
  ASSUME IInv, [Next]_vars PROVE FrameInv'
  <1> USE LinkAssumption DEF IInv, TypeOK, CallerInv, FrameInv, Unsent
  <1>1. ASSUME NEW c \in Calls, Begin(c) PROVE FrameInv'
    BY <1>1 DEF Begin, Goto, clientVars, wireVars, serverVars
  <1>2. ASSUME NEW c \in Calls, EnsureUp(c) PROVE FrameInv'
    BY <1>2 DEF EnsureUp, Goto, clientVars, wireVars, serverVars, Dial, MayDial
  <1>3. ASSUME NEW c \in Calls, EnsureRaises(c) PROVE FrameInv'
    BY <1>3 DEF EnsureRaises, DialRejected, clientVars, wireVars, serverVars,
      Ends, MayDial, Goto
  <1>4. ASSUME NEW c \in Calls, Register(c) PROVE FrameInv'
    <2>1. CASE cur # NoLink
      BY <1>4, <2>1 DEF Register, Again, Ends, Goto, clientVars, wireVars,
        serverVars
    <2>2. CASE cur = NoLink /\ attempt[c] = 1
      BY <1>4, <2>2 DEF Register, Again, Ends, Goto, clientVars, wireVars,
        serverVars
    <2>3. CASE cur = NoLink /\ attempt[c] # 1
      BY <1>4, <2>3 DEF Register, Again, Ends, Goto, clientVars, wireVars,
        serverVars
    <2> QED BY <2>1, <2>2, <2>3
  <1>5. ASSUME NEW c \in Calls, Send(c) PROVE FrameInv'
    BY <1>5 DEF Send, Goto, clientVars, serverVars
  <1>6. ASSUME NEW c \in Calls, SendFails(c) PROVE FrameInv'
    BY <1>6 DEF SendFails, Goto, clientVars, wireVars, serverVars
  <1>7. ASSUME NEW c \in Calls, SendDrops(c) PROVE FrameInv'
    BY <1>7 DEF SendDrops, DropLink, Again, serverVars, Fail, Riding, Shut,
      Goto, Ends
  <1>8. ASSUME NEW c \in Calls, Returns(c) PROVE FrameInv'
    BY <1>8 DEF Returns, Ends, clientVars, wireVars, serverVars, Goto
  <1>9. ASSUME NEW c \in Calls, TimesOut(c) PROVE FrameInv'
    BY <1>9 DEF TimesOut, Ends, clientVars, wireVars, serverVars, Goto
  <1>10. ASSUME NEW l \in Links, ReaderEnds(l) PROVE FrameInv'
    BY <1>10 DEF ReaderEnds, Stopped, DropLink, serverVars, Fail, Riding, Shut
  <1>11. ASSUME NEW l \in Links, SessionInstalls(l) PROVE FrameInv'
    BY <1>11 DEF SessionInstalls, clientVars, callVars, wireVars
  <1>12. ASSUME NEW l \in Links, SessionReplaces(l) PROVE FrameInv'
    BY <1>12 DEF SessionReplaces, Shut, clientVars, callVars
  <1>13. ASSUME NEW l \in Links, SessionEnds(l) PROVE FrameInv'
    BY <1>13 DEF SessionEnds, Forget, Shut, clientVars, callVars
  <1>14. ASSUME NEW l \in Links, NEW c \in Calls, ReaderResolves(l, c)
         PROVE  FrameInv'
    BY <1>14 DEF ReaderResolves, Riding, clientVars, serverVars
  <1>15. ASSUME NEW l \in Links, NEW c \in Calls, SessionReads(l, c)
         PROVE  FrameInv'
    BY <1>15 DEF SessionReads, clientVars, callVars
  <1>16. ASSUME NEW l \in Links, NEW c \in Calls, DispatchRuns(l, c)
         PROVE  FrameInv'
    BY <1>16 DEF DispatchRuns, clientVars, callVars
  <1>17. ASSUME Reattach PROVE FrameInv'
    BY <1>17 DEF Reattach, Dial, DialRejected, callVars, MayDial, wireVars,
      serverVars
  <1>18. ASSUME Close PROVE FrameInv'
    BY <1>18 DEF Close, Stopped, callVars, wireVars, serverVars
  <1>19. ASSUME CloseDrops PROVE FrameInv'
    BY <1>19 DEF CloseDrops, Fail, Shut, serverVars
  <1>20. ASSUME PublishFails PROVE FrameInv'
    BY <1>20 DEF PublishFails, Forget, clientVars, callVars, wireVars
  <1>21. ASSUME ServerStops PROVE FrameInv'
    BY <1>21 DEF ServerStops, Shut, clientVars, callVars
  <1>22. ASSUME ChildDies PROVE FrameInv'
    BY <1>22 DEF ChildDies, clientVars, callVars
  <1>23. ASSUME NEW t \in {"shared", "own"}, Respawn(t) PROVE FrameInv'
    BY <1>23 DEF Respawn, clientVars, callVars, wireVars
  <1>24. ASSUME UNCHANGED vars PROVE FrameInv'
    BY <1>24 DEF vars, clientVars, callVars, wireVars, serverVars
  <1> HIDE DEF IInv, TypeOK, FrameInv
  <1> QED BY <1>1, <1>2, <1>3, <1>4, <1>5, <1>6, <1>7, <1>8, <1>9, <1>10,
      <1>11, <1>12, <1>13, <1>14, <1>15, <1>16, <1>17, <1>18, <1>19, <1>20,
      <1>21, <1>22, <1>23, <1>24 DEF Next, CallStep, LinkStep

\* Only a link that is being retired sets a call of its own to lost.
LEMMA StepLoss ==
  ASSUME IInv, [Next]_vars PROVE LossInv'
  <1> USE LinkAssumption DEF IInv, TypeOK, CurrentInv, CallerInv, LossInv,
      Stopped
  <1>1. ASSUME NEW c \in Calls, Begin(c) PROVE LossInv'
    BY <1>1 DEF Begin, Goto, clientVars, wireVars, serverVars
  <1>2. ASSUME NEW c \in Calls, EnsureUp(c) PROVE LossInv'
    BY <1>2 DEF EnsureUp, Goto, clientVars, wireVars, serverVars, Dial, MayDial
  <1>3. ASSUME NEW c \in Calls, EnsureRaises(c) PROVE LossInv'
    BY <1>3 DEF EnsureRaises, DialRejected, clientVars, wireVars, serverVars,
      Ends, MayDial, Goto
  <1>4. ASSUME NEW c \in Calls, Register(c) PROVE LossInv'
    <2>1. CASE cur # NoLink
      BY <1>4, <2>1 DEF Register, Again, Ends, Goto, clientVars, wireVars,
        serverVars
    <2>2. CASE cur = NoLink /\ attempt[c] = 1
      BY <1>4, <2>2 DEF Register, Again, Ends, Goto, clientVars, wireVars,
        serverVars
    <2>3. CASE cur = NoLink /\ attempt[c] # 1
      BY <1>4, <2>3 DEF Register, Again, Ends, Goto, clientVars, wireVars,
        serverVars
    <2> QED BY <2>1, <2>2, <2>3
  <1>5. ASSUME NEW c \in Calls, Send(c) PROVE LossInv'
    BY <1>5 DEF Send, Goto, clientVars, serverVars
  <1>6. ASSUME NEW c \in Calls, SendFails(c) PROVE LossInv'
    BY <1>6 DEF SendFails, Goto, clientVars, wireVars, serverVars
  <1>7. ASSUME NEW c \in Calls, SendDrops(c) PROVE LossInv'
    <2>1. CASE attempt[c] = 1
      BY <1>7, <2>1 DEF SendDrops, DropLink, Fail, Riding, Shut, Again, Ends,
        Goto, serverVars
    <2>2. CASE attempt[c] # 1
      BY <1>7, <2>2 DEF SendDrops, DropLink, Fail, Riding, Shut, Again, Ends,
        Goto, serverVars
    <2> QED BY <2>1, <2>2
  <1>8. ASSUME NEW c \in Calls, Returns(c) PROVE LossInv'
    BY <1>8 DEF Returns, Ends, clientVars, wireVars, serverVars, Goto
  <1>9. ASSUME NEW c \in Calls, TimesOut(c) PROVE LossInv'
    BY <1>9 DEF TimesOut, Ends, clientVars, wireVars, serverVars, Goto
  <1>10. ASSUME NEW l \in Links, ReaderEnds(l) PROVE LossInv'
    BY <1>10 DEF ReaderEnds, DropLink, serverVars, Fail, Riding, Shut
  <1>11. ASSUME NEW l \in Links, SessionInstalls(l) PROVE LossInv'
    BY <1>11 DEF SessionInstalls, clientVars, callVars, wireVars
  <1>12. ASSUME NEW l \in Links, SessionReplaces(l) PROVE LossInv'
    BY <1>12 DEF SessionReplaces, Shut, clientVars, callVars
  <1>13. ASSUME NEW l \in Links, SessionEnds(l) PROVE LossInv'
    BY <1>13 DEF SessionEnds, Forget, Shut, clientVars, callVars
  <1>14. ASSUME NEW l \in Links, NEW c \in Calls, ReaderResolves(l, c)
         PROVE  LossInv'
    BY <1>14 DEF ReaderResolves, Riding, clientVars, serverVars
  <1>15. ASSUME NEW l \in Links, NEW c \in Calls, SessionReads(l, c)
         PROVE  LossInv'
    BY <1>15 DEF SessionReads, clientVars, callVars
  <1>16. ASSUME NEW l \in Links, NEW c \in Calls, DispatchRuns(l, c)
         PROVE  LossInv'
    BY <1>16 DEF DispatchRuns, clientVars, callVars
  <1>17. ASSUME Reattach PROVE LossInv'
    BY <1>17 DEF Reattach, Dial, DialRejected, callVars, MayDial, wireVars,
      serverVars
  <1>18. ASSUME Close PROVE LossInv'
    BY <1>18 DEF Close, callVars, wireVars, serverVars
  <1>19. ASSUME CloseDrops PROVE LossInv'
    BY <1>19 DEF CloseDrops, Fail, Shut, serverVars
  <1>20. ASSUME PublishFails PROVE LossInv'
    BY <1>20 DEF PublishFails, Forget, clientVars, callVars, wireVars
  <1>21. ASSUME ServerStops PROVE LossInv'
    BY <1>21 DEF ServerStops, Shut, clientVars, callVars
  <1>22. ASSUME ChildDies PROVE LossInv'
    BY <1>22 DEF ChildDies, clientVars, callVars
  <1>23. ASSUME NEW t \in {"shared", "own"}, Respawn(t) PROVE LossInv'
    BY <1>23 DEF Respawn, clientVars, callVars, wireVars
  <1>24. ASSUME UNCHANGED vars PROVE LossInv'
    BY <1>24 DEF vars, clientVars, callVars, wireVars, serverVars
  <1> QED BY <1>1, <1>2, <1>3, <1>4, <1>5, <1>6, <1>7, <1>8, <1>9, <1>10,
      <1>11, <1>12, <1>13, <1>14, <1>15, <1>16, <1>17, <1>18, <1>19, <1>20,
      <1>21, <1>22, <1>23, <1>24 DEF Next, CallStep, LinkStep

-----------------------------------------------------------------------------
(* The results *)

\* At the start there is no link, no call and no frame.
LEMMA InitIInv == Init => IInv
  <1> SUFFICES ASSUME Init PROVE IInv
    OBVIOUS
  <1> USE LinkAssumption DEF Init
  <1>1. TypeOK
    <2>1. 0 \in 0..MaxLinks /\ 0 \in 0..MaxCrashes /\ 1 \in 1..2
      OBVIOUS
    <2> QED BY <2>1 DEF TypeOK
  <1>2. CurrentInv /\ CallerInv /\ LossInv
    BY DEF CurrentInv, CallerInv, LossInv
  <1>3. FrameInv
    BY DEF FrameInv, Unsent
  <1> QED BY <1>1, <1>2, <1>3 DEF IInv

\* IInv is an invariant of the link: the other results follow from it.
THEOREM Inductive == Spec => []IInv
  <1>1. IInv /\ [Next]_vars => IInv'
    BY StepType, StepCurrent, StepCaller, StepFrame, StepLoss DEF IInv
  <1> QED BY InitIInv, <1>1, PTL DEF Spec

\* Every variable of the link keeps its type.
THEOREM TypeCorrect == Spec => []TypeOK
  <1>1. IInv => TypeOK
    BY DEF IInv
  <1> QED BY Inductive, <1>1, PTL

\* For any number of calls, connections and deaths of the capture process, the
\* handler of a call runs at most once, and what call() tells its caller about
\* it is true: an answer means it ran, "unreachable" that it did not.
THEOREM AtMostOnceCorrect == Spec => []AtMostOnce
  <1>1. IInv => AtMostOnce
    BY DEF IInv, FrameInv, Unsent, AtMostOnce
  <1> QED BY Inductive, <1>1, PTL

\* No caller of call() waits for an answer that no reader can deliver.
THEOREM NobodyStrandedCorrect == Spec => []NobodyStranded
  <1>1. IInv => NobodyStranded
    BY DEF IInv, CallerInv, NobodyStranded
  <1> QED BY Inductive, <1>1, PTL

\* _drop_connection() of one link fails no call on its first attempt on another
\* link, however late it comes.
THEOREM OthersUnharmedCorrect == Spec => []OthersUnharmed
  <1>1. IInv => OthersUnharmed
    BY DEF IInv, LossInv, OthersUnharmed
  <1> QED BY Inductive, <1>1, PTL
=============================================================================
