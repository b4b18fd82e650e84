-------------------------- MODULE PortMapperProofs --------------------------
(***************************************************************************)
(* Theorems about PortMapper, for any ports, leases and retry times, and   *)
(* however many reports are under way.                                     *)
(***************************************************************************)
EXTENDS PortMapper, SequenceTheorems, TLAPS

-----------------------------------------------------------------------------
(***************************************************************************)
(* Types.                                                                  *)
(***************************************************************************)
\* Ports granted are ports, and a renewal is due in a unit or more.
LEMMA ConstantTypes ==
  /\ Port \in ExternalPort
  /\ ExternalPort \subseteq Nat \ {0}
  /\ \A lease \in Lease : RenewIn(lease) \in Nat /\ RenewIn(lease) >= 1
  /\ RetryIn \in Nat /\ RetryIn >= 1
BY PortAssumption, LeaseAssumption DEF ExternalPort, RenewIn

LEMMA OffType == Off \in Mapper /\ Off.due = 0
BY DEF Off, Mapper, Wan

\* StartPortMapper leaves the mapper as it is or gives it a new thread.
LEMMA StartedType ==
  ASSUME NEW m \in Mapper, m.due >= -1, NEW ok \in BOOLEAN
  PROVE  /\ Started(m, ok) \in Mapper
         /\ Started(m, ok).due >= -1
<1>1. [Off EXCEPT !.phase = "start", !.keep = TRUE] \in Mapper
  BY OffType DEF Mapper
<1>2. [Off EXCEPT !.phase = "start", !.keep = TRUE].due = 0
  BY OffType DEF Off
<1> QED  BY <1>1, <1>2 DEF Started

LEMMA NewWindowType ==
  ASSUME NEW f \in BOOLEAN, NEW a \in BOOLEAN
  PROVE  NewWindow(f, a) \in Window
BY ConstantTypes DEF NewWindow, Window

LEMMA ReportTypes ==
  /\ \A s \in {"trying", "failed", "lost", "removed"} : [state |-> s] \in Report
  /\ \A p \in ExternalPort : [state |-> "mapped", port |-> p] \in Report
  /\ \A r \in {-1, 0, 1} : [state |-> "reach", reachable |-> r] \in Report
BY DEF Report

LEMMA PostType ==
  ASSUME reports \in Seq(Report), NEW m \in Report, Post(m)
  PROVE  reports' \in Seq(Report)
BY AppendProperties DEF Post

LEMMA HeadType ==
  ASSUME reports \in Seq(Report), reports # <<>>
  PROVE  /\ Head(reports) \in Report
         /\ Tail(reports) \in Seq(Report)
         /\ Head(reports).state = "mapped" => Head(reports).port \in ExternalPort
         /\ Head(reports).state = "reach" => Head(reports).reachable \in {-1, 0, 1}
<1>1. Head(reports) \in Report /\ Tail(reports) \in Seq(Report)
  BY HeadTailProperties
<1> QED  BY <1>1 DEF Report

LEMMA TypeInit == Init => TypeOK
<1> SUFFICES ASSUME Init PROVE TypeOK  OBVIOUS
<1>1. PICK f \in BOOLEAN, a \in BOOLEAN :
        /\ win = NewWindow(f, a)
        /\ \E ok \in BOOLEAN : mapper = IF a THEN Started(Off, ok) ELSE Off
        /\ wish = f
  BY DEF Init
<1>2. win \in Window  BY <1>1, NewWindowType
<1>3. mapper \in Mapper /\ mapper.due >= -1  BY <1>1, OffType, StartedType
<1>4. router \in Router  BY DEF Init, Router, Wan
<1>5. reports \in Seq(Report)  BY DEF Init
<1> QED  BY <1>1, <1>2, <1>3, <1>4, <1>5 DEF TypeOK

\* Every step of the thread, the window, the router and the clock keeps types.
LEMMA TypeStep == TypeOK /\ [Next]_vars => TypeOK'
<1> SUFFICES ASSUME TypeOK, [Next]_vars PROVE TypeOK'
  OBVIOUS
<1> USE ConstantTypes
<1> USE DEF TypeOK
<1>1. CASE ThreadBegins
  <2>1. mapper' \in Mapper /\ mapper'.due >= -1  BY <1>1 DEF ThreadBegins, Mapper
  <2>2. reports' \in Seq(Report)  BY <1>1, ReportTypes, AppendProperties DEF ThreadBegins, Post
  <2> QED  BY <1>1, <2>1, <2>2 DEF ThreadBegins
<1>2. CASE LoopTop
  <2>1. mapper' \in Mapper /\ mapper'.due >= -1  BY <1>2 DEF LoopTop, Mapper
  <2> QED  BY <1>2, <2>1 DEF LoopTop
<1>3. ASSUME NEW p \in ExternalPort, NEW lease \in Lease, NEW ip \in Wan, AttemptSucceeds(p, lease, ip)
      PROVE  TypeOK'
  <2> DEFINE m1 == [mapper EXCEPT !.phase = "loop", !.mapped = TRUE, !.ever = TRUE]
             m2 == [m1 EXCEPT !.port = p, !.ip = ip]
             m3 == [m2 EXCEPT !.asked = @ \/ ~mapper.mapped, !.due = RenewIn(lease)]
  <2>1. m1 \in Mapper  BY DEF Mapper
  <2>2. m2 \in Mapper  <3> HIDE DEF m1  <3> QED  BY <2>1 DEF Mapper
  <2>3. m3 \in Mapper /\ m3.due = RenewIn(lease)
    <3> HIDE DEF m2
    <3>1. RenewIn(lease) \in Int  OBVIOUS
    <3> QED  BY <2>2, <3>1, Zenon DEF Mapper
  <2>4. mapper' = m3  BY <1>3 DEF AttemptSucceeds
  <2>5. router' \in Router  BY <1>3, LeaseAssumption DEF AttemptSucceeds, Router
  <2>6. reports' \in Seq(Report)  BY <1>3, ReportTypes, AppendProperties DEF AttemptSucceeds, Post
  <2> QED  BY <1>3, <2>3, <2>4, <2>5, <2>6 DEF AttemptSucceeds
<1>4. CASE AttemptFails
  <2>1. RetryIn \in Int /\ RetryIn >= -1  OBVIOUS
  <2>2. mapper' \in Mapper /\ mapper'.due = RetryIn
    BY <1>4, <2>1, Zenon DEF AttemptFails, Mapper
  <2>3. reports' \in Seq(Report)
    <3>1. CASE mapper.mapped
      BY <1>4, <3>1, ReportTypes, PostType DEF AttemptFails
    <3>2. CASE ~mapper.mapped /\ ~mapper.ever
      BY <1>4, <3>2, ReportTypes, PostType DEF AttemptFails
    <3>3. CASE ~mapper.mapped /\ mapper.ever
      BY <1>4, <3>3 DEF AttemptFails
    <3> QED  BY <3>1, <3>2, <3>3
  <2> QED  BY <1>4, <2>1, <2>2, <2>3 DEF AttemptFails
<1>5. CASE Probe
  <2>1. mapper' \in Mapper /\ mapper'.due >= -1  BY <1>5 DEF Probe, Mapper
  <2>2. Verdict(mapper.ip, Direct) \in {-1, 0, 1}  BY DEF Verdict, Mapper, Wan
  <2>3. reports' \in Seq(Report)  BY <1>5, <2>2, ReportTypes, AppendProperties DEF Probe, Post
  <2> QED  BY <1>5, <2>1, <2>3 DEF Probe
<1>6. CASE ThreadEnds
  <2>1. mapper' \in Mapper /\ mapper'.due >= -1  BY <1>6 DEF ThreadEnds, Mapper
  <2>2. router' \in Router  BY <1>6 DEF ThreadEnds, Router
  <2>3. reports' \in Seq(Report)
    <3>1. CASE mapper.ever  BY <1>6, <3>1, ReportTypes, PostType DEF ThreadEnds
    <3>2. CASE ~mapper.ever  BY <1>6, <3>2 DEF ThreadEnds
    <3> QED  BY <3>1, <3>2
  <2> QED  BY <1>6, <2>1, <2>2, <2>3 DEF ThreadEnds
<1>7. CASE ToggleAutoPortForward
  <2>1. win' \in Window
    <3> DEFINE w == [win EXCEPT !.auto = ~@]
    <3>1. w \in Window /\ w.call = win.call  BY DEF Window
    <3> HIDE DEF w
    <3>2. CASE win' = w  BY <3>1, <3>2
    <3>3. CASE \E call \in {"none", "stop"} : win' = [w EXCEPT !.call = call]
      BY <3>1, <3>3 DEF Window
    <3> QED  BY <1>7, <3>2, <3>3 DEF ToggleAutoPortForward, StopPortMapper, w
  <2>2. mapper' \in Mapper /\ mapper'.due >= -1
    <3>1. CASE win.auto
      BY <1>7, <3>1 DEF ToggleAutoPortForward, StopPortMapper, Mapper, Window
    <3>2. CASE ~win.auto
      <4>1. PICK ok \in BOOLEAN : mapper' = Started(mapper, ok)
        BY <1>7, <3>2 DEF ToggleAutoPortForward, Window
      <4> QED  BY <4>1, StartedType
    <3> QED  BY <3>1, <3>2
  <2> QED  BY <1>7, <2>1, <2>2 DEF ToggleAutoPortForward
<1>8. CASE Stopped
  BY <1>8, OffType DEF Stopped, Window
<1>9. CASE TestReachability
  <2>1. PICK ok \in BOOLEAN :
          mapper' = IF Started(mapper, ok).phase = "off" THEN Started(mapper, ok)
                    ELSE [Started(mapper, ok) EXCEPT !.asked = TRUE]
    BY <1>9 DEF TestReachability
  <2>2. mapper' \in Mapper /\ mapper'.due >= -1  BY <2>1, StartedType DEF Mapper
  <2> QED  BY <1>9, <2>2 DEF TestReachability
<1>10. CASE ToggleFirewalled
  <2>1. win' \in Window  BY <1>10 DEF ToggleFirewalled, Window
  <2>2. wish' \in BOOLEAN  BY <1>10 DEF ToggleFirewalled, Window
  <2> QED  BY <1>10, <2>1, <2>2 DEF ToggleFirewalled
<1>11. CASE ReachReport
  <2>1. win' \in Window  BY <1>11, HeadType DEF ReachReport, Window
  <2> QED  BY <1>11, <2>1, HeadType DEF ReachReport
<1>12. CASE MappedReport
  <2>1. win' \in Window  BY <1>12, HeadType DEF MappedReport, Window
  <2> QED  BY <1>12, <2>1, HeadType DEF MappedReport
<1>13. CASE UnmappedReport
  <2>1. win' \in Window  BY <1>13 DEF UnmappedReport, Window
  <2> QED  BY <1>13, <2>1, HeadType DEF UnmappedReport
<1>14. CASE TryingReport
  BY <1>14, HeadType DEF TryingReport
<1>15. CASE Quit
  <2>1. win' \in Window  BY <1>15 DEF Quit, StopPortMapper, Window
  <2>2. mapper' \in Mapper /\ mapper'.due >= -1  BY <1>15 DEF Quit, StopPortMapper, Mapper
  <2> QED  BY <1>15, <2>1, <2>2 DEF Quit
<1>16. CASE StartAgain
  <2>1. Persisted(win) \in BOOLEAN /\ win.auto \in BOOLEAN  BY DEF Persisted, Window
  <2>2. win' \in Window  BY <1>16, <2>1, NewWindowType DEF StartAgain
  <2>3. mapper' \in Mapper /\ mapper'.due >= -1  BY <1>16, OffType, StartedType DEF StartAgain
  <2> QED  BY <1>16, <2>2, <2>3 DEF StartAgain
<1>17. CASE RouterStopsAnswering
  BY <1>17 DEF RouterStopsAnswering, Router
<1>18. CASE RouterAnswersAgain
  <2>1. PICK rebooted \in BOOLEAN, w \in Wan \ {"none"} :
          router' = [router EXCEPT !.well = TRUE, !.wan = IF rebooted THEN w ELSE @,
                       !.lease = IF rebooted THEN 0 ELSE @, !.intact = @ /\ ~rebooted]
    BY <1>18 DEF RouterAnswersAgain
  <2>2. router' \in Router  BY <2>1, Zenon DEF Router
  <2> QED  BY <1>18, <2>2 DEF RouterAnswersAgain
<1>19. CASE Tick
  <2>1. router' \in Router  BY <1>19 DEF Tick, Router
  <2>2. mapper' \in Mapper /\ mapper'.due >= -1  BY <1>19 DEF Tick, Mapper
  <2> QED  BY <1>19, <2>1, <2>2 DEF Tick
<1>20. CASE UNCHANGED vars
  BY <1>20 DEF vars
<1> QED
  BY <1>1, <1>2, <1>3, <1>4, <1>5, <1>6, <1>7, <1>8, <1>9, <1>10, <1>11, <1>12, <1>13,
     <1>14, <1>15, <1>16, <1>17, <1>18, <1>19, <1>20
     DEF Next, ThreadStep, HandleReport, Command, Outside

\* TypeOK holds throughout: reports carry granted ports only, and an attempt
\* is never more than a unit late (_ThreadLoop's clock).
THEOREM TypeCorrect == Spec => []TypeOK
BY TypeInit, TypeStep, PTL DEF Spec

-----------------------------------------------------------------------------
(***************************************************************************)
(* The inductive invariants.                                               *)
(***************************************************************************)
\* A flag that is not what the user wants it to be was cleared by the mapper.
WishInv == wish => win.intended /\ (win.firewalled \/ win.cleared)

\* There is a mapping only while there is a thread that has made one, and so
\* is a router's address.
ThreadInv ==
  /\ mapper.mapped => mapper.ever
  /\ mapper.phase \in {"off", "start", "gone"} => ~mapper.mapped
  /\ mapper.ip # "none" => mapper.ever

\* The lease outlives the time of the next attempt by two units, one of which
\* that attempt may take.
LeaseInv == mapper.mapped /\ router.intact => router.lease >= mapper.due + 2

\* A report after which the window advertises a known port, and that port.
Decides(r)  == r.state \in {"mapped", "lost", "failed", "removed"}
PortOf(r)   == IF r.state = "mapped" THEN r.port ELSE Port

Holds(m, p) == p # Port => m.mapped /\ m.port = p

\* With the reports (rs) under way, the mapper (m) holds the port that will be
\* advertised when they have been handled: that of the last report that
\* decides, or the present one (adv).
Settled(rs, m, adv) ==
  /\ \A i \in 1..Len(rs) :
       Decides(rs[i]) /\ (\A j \in (i + 1)..Len(rs) : ~Decides(rs[j])) => Holds(m, PortOf(rs[i]))
  /\ (\A i \in 1..Len(rs) : ~Decides(rs[i])) => Holds(m, adv)

AdvertisedInv == Settled(reports, mapper, win.advertised)

\* A report that clears the firewalled flag, and one that sets it again.
Opens(r)    == r.state = "reach" /\ r.reachable = 1
Closes(r)   == \/ r.state = "reach" /\ r.reachable = 0
               \/ r.state \in {"lost", "failed", "removed"}
Switches(r) == Opens(r) \/ Closes(r)

\* Why peers may reach us.
Reason == Direct \/ mapper.mapped \/ (mapper.phase \notin {"off", "gone"} /\ mapper.ip = "ours")

\* If we shall not be firewalled when the reports (rs) have been handled, by
\* the last report that switches the flag or as we are now (open), there is a
\* (reason) for it.
Justified(rs, open, reason) ==
  /\ \A i \in 1..Len(rs) :
       Opens(rs[i]) /\ (\A j \in (i + 1)..Len(rs) : ~Switches(rs[j])) => reason
  /\ open /\ (\A i \in 1..Len(rs) : ~Switches(rs[i])) => reason

\* While the mapper manages the flag, it knows whether it has cleared what the
\* user wants set, and there is a reason for it in the end.
OpenInv ==
  win.manages /\ win.intended =>
    /\ win.firewalled \/ win.cleared
    /\ Justified(reports, ~win.firewalled, Reason)

-----------------------------------------------------------------------------
(***************************************************************************)
(* The user's wish.                                                        *)
(***************************************************************************)
\* Only six actions change the window's flags.
LEMMA WishStep == TypeOK /\ WishInv /\ [Next]_vars => WishInv'
<1> SUFFICES ASSUME TypeOK, WishInv, [Next]_vars PROVE WishInv'
  OBVIOUS
<1> USE DEF WishInv
<1>0. win \in Window /\ wish \in BOOLEAN  BY DEF TypeOK
<1>1. CASE ToggleAutoPortForward
  BY <1>0, <1>1, Zenon DEF ToggleAutoPortForward, StopPortMapper, Window
<1>2. CASE Stopped
  BY <1>0, <1>2 DEF Stopped, Window
<1>3. CASE ToggleFirewalled
  BY <1>0, <1>3 DEF ToggleFirewalled, Window
<1>4. CASE ReachReport
  <2>1. CASE win.manages /\ Head(reports).reachable # -1 /\ win.firewalled # (Head(reports).reachable = 0)
    BY <1>0, <1>4, <2>1, Zenon DEF ReachReport, Window
  <2>2. CASE ~(win.manages /\ Head(reports).reachable # -1 /\ win.firewalled # (Head(reports).reachable = 0))
    BY <1>0, <1>4, <2>2, Zenon DEF ReachReport, Window
  <2> QED  BY <2>1, <2>2
<1>5. CASE MappedReport
  BY <1>0, <1>5 DEF MappedReport, Window
<1>6. CASE UnmappedReport
  BY <1>0, <1>6 DEF UnmappedReport, Window
<1>7. CASE Quit
  BY <1>0, <1>7 DEF Quit, StopPortMapper, Window
<1>8. CASE StartAgain
  BY <1>0, <1>8 DEF StartAgain, NewWindow, Persisted, Window
<1>9. CASE UNCHANGED <<win, wish>>
  BY <1>9
<1> QED
  BY <1>1, <1>2, <1>3, <1>4, <1>5, <1>6, <1>7, <1>8, <1>9
     DEF Next, ThreadStep, HandleReport, Command, Outside, vars, ThreadBegins, LoopTop,
         AttemptSucceeds, AttemptFails, Probe, ThreadEnds, TestReachability, TryingReport,
         RouterStopsAnswering, RouterAnswersAgain, Tick

\* WishKept: whoever has chosen to be firewalled finds that choice in the
\* settings (GenerateSettingsMessage), whatever the mapper did to the flag and
\* however often the program was restarted.
THEOREM WishIsKept == Spec => []WishKept
<1>1. Init => WishInv
  BY DEF Init, WishInv, NewWindow
<1>2. TypeOK /\ WishInv => WishKept
  BY DEF TypeOK, WishInv, WishKept, Persisted, Window
<1> QED  BY <1>1, <1>2, WishStep, TypeCorrect, PTL DEF Spec

-----------------------------------------------------------------------------
(***************************************************************************)
(* The thread and the lease.                                               *)
(***************************************************************************)
LEMMA StartedFields ==
  ASSUME NEW m \in Mapper, NEW ok \in BOOLEAN
  PROVE  \/ Started(m, ok) = m
         \/ /\ m.phase = "off"
            /\ Started(m, ok).phase = "start" /\ Started(m, ok).ip = "none"
            /\ ~Started(m, ok).mapped /\ ~Started(m, ok).ever
            /\ Started(m, ok).port = 0
BY DEF Started, Off

\* What an action makes of the fields that the invariants below are about.
LEMMA MapperFields ==
  ASSUME TypeOK
  PROVE  /\ \A p, lease, ip : AttemptSucceeds(p, lease, ip) =>
              /\ mapper'.phase = "loop" /\ mapper'.mapped /\ mapper'.ever
              /\ mapper'.port = p /\ mapper'.ip = ip /\ mapper'.due = RenewIn(lease)
         /\ AttemptFails =>
              /\ mapper'.phase = "loop" /\ ~mapper'.mapped /\ mapper'.ever = mapper.ever
              /\ mapper'.ip = mapper.ip
         /\ ThreadEnds =>
              /\ mapper'.phase = "gone" /\ ~mapper'.mapped /\ mapper'.ever = mapper.ever
              /\ mapper'.ip = mapper.ip
         /\ Stopped \/ StartAgain =>
              /\ mapper'.phase \in {"off", "start"} /\ ~mapper'.mapped /\ ~mapper'.ever
              /\ mapper'.ip = "none"
<1>0. mapper \in Mapper  BY DEF TypeOK
<1>1. ASSUME NEW p, NEW lease, NEW ip, AttemptSucceeds(p, lease, ip)
      PROVE  /\ mapper'.phase = "loop" /\ mapper'.mapped /\ mapper'.ever
             /\ mapper'.port = p /\ mapper'.ip = ip /\ mapper'.due = RenewIn(lease)
  BY <1>0, <1>1, ZenonT(60) DEF AttemptSucceeds, Mapper
<1>2. ASSUME AttemptFails
      PROVE  /\ mapper'.phase = "loop" /\ ~mapper'.mapped /\ mapper'.ever = mapper.ever
             /\ mapper'.ip = mapper.ip
  BY <1>0, <1>2, ZenonT(60) DEF AttemptFails, Mapper
<1>3. ASSUME ThreadEnds
      PROVE  /\ mapper'.phase = "gone" /\ ~mapper'.mapped /\ mapper'.ever = mapper.ever
             /\ mapper'.ip = mapper.ip
  BY <1>0, <1>3, ZenonT(60) DEF ThreadEnds, Mapper
<1>4. ASSUME Stopped \/ StartAgain
      PROVE  /\ mapper'.phase \in {"off", "start"} /\ ~mapper'.mapped /\ ~mapper'.ever
             /\ mapper'.ip = "none"
  BY <1>4, OffType, StartedFields DEF Stopped, StartAgain, Off
<1> QED  BY <1>1, <1>2, <1>3, <1>4

\* The other actions leave the mapping alone; those that give the mapper a new
\* thread find it switched off.
MappingAlone ==
  /\ mapper'.mapped = mapper.mapped /\ mapper'.ever = mapper.ever
  /\ mapper'.ip = mapper.ip /\ mapper'.port = mapper.port
  /\ mapper'.phase \in {"off", "gone"} <=> mapper.phase \in {"off", "gone"}
  /\ mapper'.phase = "start" => mapper.phase = "start"

MapperNew ==
  /\ mapper.phase = "off"
  /\ mapper'.phase = "start" /\ mapper'.ip = "none"
  /\ ~mapper'.mapped /\ ~mapper'.ever

LEMMA MapperStep ==
  ASSUME TypeOK, [Next]_vars
  PROVE  \/ MappingAlone
         \/ MapperNew
         \/ \E p \in ExternalPort, lease \in Lease, ip \in Wan : AttemptSucceeds(p, lease, ip)
         \/ AttemptFails \/ ThreadEnds \/ Stopped \/ StartAgain
<1>0. mapper \in Mapper /\ win \in Window  BY DEF TypeOK
<1>1. CASE UNCHANGED mapper
  BY <1>1 DEF MappingAlone
<1>2. CASE ThreadBegins
  BY <1>0, <1>2 DEF ThreadBegins, MappingAlone, Mapper
<1>3. CASE LoopTop
  <2>1. mapper.phase = "loop"  BY <1>3 DEF LoopTop
  <2>2. CASE ~mapper.keep
    <3>1. mapper' = [mapper EXCEPT !.phase = "exit"]  BY <1>3, <2>2 DEF LoopTop
    <3> QED  BY <1>0, <2>1, <3>1 DEF MappingAlone, Mapper
  <2>3. CASE mapper.keep /\ mapper.due <= 0
    <3>1. mapper' = [mapper EXCEPT !.phase = "attempt"]  BY <1>3, <2>3 DEF LoopTop
    <3> QED  BY <1>0, <2>1, <3>1 DEF MappingAlone, Mapper
  <2>4. CASE mapper.keep /\ ~(mapper.due <= 0)
    <3>1. mapper' = [mapper EXCEPT !.phase = "probe", !.asked = FALSE]  BY <1>3, <2>4 DEF LoopTop
    <3> QED  BY <1>0, <2>1, <3>1 DEF MappingAlone, Mapper
  <2> QED  BY <2>2, <2>3, <2>4
<1>4. CASE Probe
  BY <1>0, <1>4 DEF Probe, MappingAlone, Mapper
<1>5. CASE ToggleAutoPortForward
  <2>1. CASE win.auto
    BY <1>0, <1>5, <2>1 DEF ToggleAutoPortForward, StopPortMapper, MappingAlone, Mapper, Window
  <2>2. CASE ~win.auto
    <3>1. PICK ok \in BOOLEAN : mapper' = Started(mapper, ok)
      BY <1>0, <1>5, <2>2 DEF ToggleAutoPortForward, Window
    <3> QED  BY <1>0, <3>1, StartedFields DEF MappingAlone, MapperNew
  <2> QED  BY <2>1, <2>2
<1>6. CASE TestReachability
  <2>1. PICK ok \in BOOLEAN :
          mapper' = IF Started(mapper, ok).phase = "off" THEN Started(mapper, ok)
                    ELSE [Started(mapper, ok) EXCEPT !.asked = TRUE]
    BY <1>6 DEF TestReachability
  <2> DEFINE m == Started(mapper, ok)
  <2>2. m \in Mapper  BY <1>0, StartedType DEF TypeOK
  <2>3. /\ mapper'.phase = m.phase /\ mapper'.mapped = m.mapped /\ mapper'.ever = m.ever
        /\ mapper'.ip = m.ip /\ mapper'.port = m.port
    <3> HIDE DEF m
    <3> QED  BY <2>1, <2>2 DEF m, Mapper
  <2> QED  BY <1>0, <2>3, StartedFields DEF MappingAlone, MapperNew
<1>7. CASE Quit
  BY <1>0, <1>7 DEF Quit, StopPortMapper, MappingAlone, Mapper
<1>8. CASE Tick
  BY <1>0, <1>8 DEF Tick, MappingAlone, Mapper
<1> QED
  BY <1>1, <1>2, <1>3, <1>4, <1>5, <1>6, <1>7, <1>8
     DEF Next, ThreadStep, HandleReport, Command, Outside, vars, ToggleFirewalled, ReachReport,
         MappedReport, UnmappedReport, TryingReport, RouterStopsAnswering, RouterAnswersAgain

LEMMA ThreadStepInv == TypeOK /\ ThreadInv /\ [Next]_vars => ThreadInv'
<1> SUFFICES ASSUME TypeOK, ThreadInv, [Next]_vars PROVE ThreadInv'
  OBVIOUS
<1> QED  BY MapperStep, MapperFields DEF ThreadInv, MappingAlone, MapperNew

LEMMA ThreadIsSound == Spec => []ThreadInv
<1>1. Init => ThreadInv
  <2> SUFFICES ASSUME Init PROVE ThreadInv  OBVIOUS
  <2>1. \/ mapper = Off
        \/ \E ok \in BOOLEAN : mapper = Started(Off, ok)
    BY DEF Init
  <2> QED  BY <2>1, OffType, StartedFields DEF ThreadInv, Off
<1> QED  BY <1>1, ThreadStepInv, TypeCorrect, PTL DEF Spec

\* What becomes of the lease.
LEMMA RouterStep ==
  ASSUME TypeOK, [Next]_vars
  PROVE  \/ /\ router'.lease = router.lease /\ router'.intact = router.intact
            /\ \/ mapper'.due = mapper.due
               \/ ~mapper'.mapped
         \/ \E p \in ExternalPort, lease \in Lease, ip \in Wan : AttemptSucceeds(p, lease, ip)
         \/ ~mapper'.mapped
         \/ ~router'.intact
         \/ /\ router.lease > 0 => router'.lease = router.lease - 1
            /\ router'.intact = router.intact
            /\ mapper'.due = mapper.due - 1
         \/ mapper.phase \in {"off", "gone"} /\ mapper'.mapped = mapper.mapped
<1>0. mapper \in Mapper /\ router \in Router  BY DEF TypeOK
<1>2. CASE AttemptFails \/ ThreadEnds \/ Stopped \/ StartAgain
  BY <1>2, MapperFields
<1>3. CASE UNCHANGED mapper /\ UNCHANGED router
  BY <1>3
<1>4. CASE RouterAnswersAgain
  <2>1. PICK rebooted \in BOOLEAN, w \in Wan \ {"none"} :
          router' = [router EXCEPT !.well = TRUE, !.wan = IF rebooted THEN w ELSE @,
                       !.lease = IF rebooted THEN 0 ELSE @, !.intact = @ /\ ~rebooted]
    BY <1>4 DEF RouterAnswersAgain
  <2>2. CASE rebooted
    BY <1>0, <2>1, <2>2, Zenon DEF Router
  <2>3. CASE ~rebooted
    <3>1. router'.lease = router.lease /\ router'.intact = router.intact
      BY <1>0, <2>1, <2>3, Zenon DEF Router
    <3> QED  BY <1>4, <3>1 DEF RouterAnswersAgain
  <2> QED  BY <2>2, <2>3
<1>5. CASE RouterStopsAnswering
  BY <1>0, <1>5 DEF RouterStopsAnswering, Router
<1>6. CASE Tick
  BY <1>0, <1>6 DEF Tick, Router, Mapper
<1>7. CASE ThreadBegins
  BY <1>0, <1>7 DEF ThreadBegins, Mapper
<1>8. CASE LoopTop
  BY <1>0, <1>8 DEF LoopTop, Mapper
<1>9. CASE Probe
  BY <1>0, <1>9 DEF Probe, Mapper
<1>10. CASE Quit
  BY <1>0, <1>10 DEF Quit, StopPortMapper, Mapper
<1>11. CASE ToggleAutoPortForward
  BY <1>0, <1>11, StartedFields DEF ToggleAutoPortForward, StopPortMapper, Mapper
<1>12. CASE TestReachability
  <2>1. PICK ok \in BOOLEAN :
          mapper' = IF Started(mapper, ok).phase = "off" THEN Started(mapper, ok)
                    ELSE [Started(mapper, ok) EXCEPT !.asked = TRUE]
    BY <1>12 DEF TestReachability
  <2> DEFINE m == Started(mapper, ok)
  <2>2. m \in Mapper  BY <1>0, StartedType DEF TypeOK
  <2>3. mapper'.mapped = m.mapped /\ mapper'.due = m.due
    <3> HIDE DEF m
    <3> QED  BY <2>1, <2>2 DEF m, Mapper
  <2>4. ~m.mapped \/ m = mapper  BY <1>0, StartedFields
  <2> QED  BY <1>12, <2>3, <2>4 DEF TestReachability
<1> QED
  BY <1>2, <1>3, <1>4, <1>5, <1>6, <1>7, <1>8, <1>9, <1>10, <1>11, <1>12
     DEF Next, ThreadStep, HandleReport, Command, Outside, vars, ToggleFirewalled, ReachReport,
         MappedReport, UnmappedReport, TryingReport

\* A lease of more than a minute is renewed with two units of it left.
LEMMA RenewedEarly ==
  ASSUME NEW lease \in Lease, lease > 2
  PROVE  lease >= RenewIn(lease) + 2
BY LeaseAssumption DEF RenewIn

LEMMA LeaseStep ==
  ASSUME \A lease \in Lease : lease > 2
  PROVE  TypeOK /\ ThreadInv /\ LeaseInv /\ [Next]_vars => LeaseInv'
<1> SUFFICES ASSUME TypeOK, ThreadInv, LeaseInv, [Next]_vars, mapper'.mapped, router'.intact
             PROVE  router'.lease >= mapper'.due + 2
  BY DEF LeaseInv
<1>0. /\ mapper.due \in Int /\ mapper.due >= -1
      /\ router.lease \in Nat
      /\ mapper.mapped \in BOOLEAN
  BY DEF TypeOK, Mapper, Router
<1>1. ASSUME NEW p \in ExternalPort, NEW lease \in Lease, NEW ip \in Wan,
             AttemptSucceeds(p, lease, ip)
      PROVE  router'.lease >= mapper'.due + 2
  <2>1. router'.lease = lease  BY <1>1 DEF AttemptSucceeds, TypeOK, Router
  <2> QED  BY <1>1, <2>1, RenewedEarly, MapperFields
<1>2. CASE ~\E p \in ExternalPort, lease \in Lease, ip \in Wan : AttemptSucceeds(p, lease, ip)
  <2>1. mapper.mapped
    BY <1>2, MapperStep, MapperFields DEF MappingAlone, MapperNew
  <2>2. mapper.phase \notin {"off", "gone"}
    BY <2>1 DEF ThreadInv
  <2>3. \/ router'.lease = router.lease /\ router'.intact = router.intact /\ mapper'.due = mapper.due
        \/ /\ router.lease > 0 => router'.lease = router.lease - 1
           /\ router'.intact = router.intact
           /\ mapper'.due = mapper.due - 1
    BY <1>2, <2>2, RouterStep
  <2>4. router.intact  BY <2>3
  <2>5. router.lease >= mapper.due + 2  BY <2>1, <2>4 DEF LeaseInv
  <2>6. router.lease > 0  BY <1>0, <2>5
  <2>7. \/ router'.lease = router.lease /\ mapper'.due = mapper.due
        \/ router'.lease = router.lease - 1 /\ mapper'.due = mapper.due - 1
    BY <2>3, <2>6
  <2> QED  BY <1>0, <2>5, <2>7
<1> QED  BY <1>1, <1>2

\* LeaseHeld, if no router grants a lease of a minute or less (_ThreadLoop then
\* asks for another every 30 seconds, and an attempt that takes as long comes
\* too late): a mapping the mapper believes in is there until the router is
\* rebooted.
THEOREM LeaseIsHeld == (\A lease \in Lease : lease > 2) => (Spec => []LeaseHeld)
<1> SUFFICES ASSUME \A lease \in Lease : lease > 2
             PROVE  Spec => []LeaseHeld
  OBVIOUS
<1>1. Init /\ ThreadInv => LeaseInv
  <2> SUFFICES ASSUME Init, ThreadInv PROVE ~mapper.mapped  BY DEF LeaseInv
  <2>1. mapper.phase \in {"off", "start"}
    <3>1. \/ mapper = Off
          \/ \E ok \in BOOLEAN : mapper = Started(Off, ok)
      BY DEF Init
    <3> QED  BY <3>1, OffType, StartedFields DEF Off
  <2> QED  BY <2>1 DEF ThreadInv
<1>2. TypeOK /\ LeaseInv => LeaseHeld
  BY DEF TypeOK, LeaseInv, LeaseHeld, Mapper, Router
<1>3. TypeOK /\ ThreadInv /\ LeaseInv /\ [Next]_vars => LeaseInv'
  BY LeaseStep
<1> QED  BY <1>1, <1>2, <1>3, TypeCorrect, ThreadIsSound, PTL DEF Spec

-----------------------------------------------------------------------------
(***************************************************************************)
(* Reports under way.                                                      *)
(***************************************************************************)
LEMMA Appended ==
  ASSUME NEW rs \in Seq(Report), NEW m \in Report
  PROVE  /\ Len(rs) \in Nat /\ Len(Append(rs, m)) = Len(rs) + 1
         /\ \A i \in 1..Len(rs) : Append(rs, m)[i] = rs[i]
         /\ Append(rs, m)[Len(rs) + 1] = m
BY AppendProperties, LenProperties

LEMMA Taken ==
  ASSUME NEW rs \in Seq(Report), rs # <<>>
  PROVE  /\ Len(rs) \in Nat /\ Len(rs) >= 1 /\ Len(Tail(rs)) = Len(rs) - 1
         /\ Head(rs) = rs[1]
         /\ \A i \in 1..(Len(rs) - 1) : Tail(rs)[i] = rs[i + 1]
<1>1. Len(rs) \in Nat /\ Len(rs) # 0
  BY LenProperties, EmptySeq
<1>2. Len(Tail(rs)) = Len(rs) - 1 /\ \A i \in 1..Len(Tail(rs)) : Tail(rs)[i] = rs[i + 1]
  BY HeadTailProperties
<1> QED  BY <1>1, <1>2

-----------------------------------------------------------------------------
(***************************************************************************)
(* The port advertised.                                                    *)
(***************************************************************************)
\* A report is sent while the mapper goes from (m) to (n).
LEMMA SettledPost ==
  ASSUME NEW rs \in Seq(Report), NEW r \in Report, NEW m, NEW n, NEW adv,
         Settled(rs, m, adv),
         Decides(r) => Holds(n, PortOf(r)),
         ~Decides(r) => \A p : Holds(m, p) => Holds(n, p)
  PROVE  Settled(Append(rs, r), n, adv)
<1> DEFINE k == Len(rs)
           qs == Append(rs, r)
<1>0. /\ k \in Nat /\ Len(qs) = k + 1
      /\ \A i \in 1..k : qs[i] = rs[i]
      /\ qs[k + 1] = r
  BY Appended
<1> HIDE DEF qs
<1>1. ASSUME NEW i \in 1..(k + 1), Decides(qs[i]),
             \A j \in (i + 1)..(k + 1) : ~Decides(qs[j])
      PROVE  Holds(n, PortOf(qs[i]))
  <2>1. CASE i = k + 1
    BY <1>0, <1>1, <2>1
  <2>2. CASE i \in 1..k
    <3>1. ~Decides(r)  BY <1>0, <1>1, <2>2
    <3>2. \A j \in (i + 1)..k : ~Decides(rs[j])
      <4> TAKE j \in (i + 1)..k
      <4>1. j \in (i + 1)..(k + 1) /\ j \in 1..k  BY <1>0, <2>2
      <4> QED  BY <1>0, <1>1, <4>1
    <3>3. Holds(m, PortOf(rs[i]))  BY <1>0, <1>1, <2>2, <3>2 DEF Settled
    <3> QED  BY <1>0, <2>2, <3>1, <3>3
  <2> QED  BY <1>0, <2>1, <2>2
<1>2. ASSUME \A i \in 1..(k + 1) : ~Decides(qs[i])
      PROVE  Holds(n, adv)
  <2>1. ~Decides(r)  BY <1>0, <1>2
  <2>2. \A i \in 1..k : ~Decides(rs[i])
    <3> TAKE i \in 1..k
    <3>1. i \in 1..(k + 1)  BY <1>0
    <3> QED  BY <1>0, <1>2, <3>1
  <2>3. Holds(m, adv)  BY <2>2 DEF Settled
  <2> QED  BY <2>1, <2>3
<1> QED
  <2> HIDE DEF k
  <2> QED  BY <1>0, <1>1, <1>2 DEF Settled, qs

\* The first report is handled.
LEMMA SettledTake ==
  ASSUME NEW rs \in Seq(Report), rs # <<>>, NEW m, NEW adv, Settled(rs, m, adv)
  PROVE  Settled(Tail(rs), m, IF Decides(Head(rs)) THEN PortOf(Head(rs)) ELSE adv)
<1> DEFINE k == Len(rs)
           qs == Tail(rs)
           ad == IF Decides(Head(rs)) THEN PortOf(Head(rs)) ELSE adv
<1>0. /\ k \in Nat /\ k >= 1 /\ Len(qs) = k - 1
      /\ Head(rs) = rs[1]
      /\ \A i \in 1..(k - 1) : qs[i] = rs[i + 1]
  BY Taken
<1> HIDE DEF qs
<1>1. ASSUME NEW i \in 1..(k - 1), Decides(qs[i]),
             \A j \in (i + 1)..(k - 1) : ~Decides(qs[j])
      PROVE  Holds(m, PortOf(qs[i]))
  <2>1. i + 1 \in 1..k /\ rs[i + 1] = qs[i]  BY <1>0
  <2>2. \A j \in ((i + 1) + 1)..k : ~Decides(rs[j])
    <3> TAKE j \in ((i + 1) + 1)..k
    <3>1. j - 1 \in (i + 1)..(k - 1) /\ j - 1 \in 1..(k - 1) /\ (j - 1) + 1 = j  BY <1>0
    <3> QED  BY <1>0, <1>1, <3>1
  <2> QED  BY <1>1, <2>1, <2>2 DEF Settled
<1>2. ASSUME \A i \in 1..(k - 1) : ~Decides(qs[i])
      PROVE  Holds(m, ad)
  <2>1. \A i \in 2..k : ~Decides(rs[i])
    <3> TAKE i \in 2..k
    <3>1. i - 1 \in 1..(k - 1) /\ (i - 1) + 1 = i  BY <1>0
    <3> QED  BY <1>0, <1>2, <3>1
  <2>2. CASE Decides(rs[1])
    <3>1. 1 \in 1..k /\ \A j \in (1 + 1)..k : ~Decides(rs[j])  BY <1>0, <2>1
    <3>2. Holds(m, PortOf(rs[1]))  BY <2>2, <3>1 DEF Settled
    <3> QED  BY <1>0, <2>2, <3>2
  <2>3. CASE ~Decides(rs[1])
    <3>1. \A i \in 1..k : ~Decides(rs[i])
      <4> TAKE i \in 1..k
      <4>1. i = 1 \/ i \in 2..k  BY <1>0
      <4> QED  BY <2>1, <2>3, <4>1
    <3> QED  BY <1>0, <2>3, <3>1 DEF Settled
  <2> QED  BY <2>2, <2>3
<1> QED
  <2> HIDE DEF k, ad
  <2> QED  BY <1>0, <1>1, <1>2 DEF Settled, qs, ad

\* A mapping is held on to, except by three steps, each of which is reported.
Keeps == \A p : Holds(mapper, p) => Holds(mapper', p)

LEMMA KeepsStep ==
  ASSUME TypeOK, ThreadInv, [Next]_vars
  PROVE  \/ Keeps
         \/ \E p \in ExternalPort, lease \in Lease, ip \in Wan : AttemptSucceeds(p, lease, ip)
         \/ AttemptFails /\ mapper.mapped
         \/ ThreadEnds /\ mapper.ever
<1>1. CASE MappingAlone  BY <1>1 DEF Keeps, Holds, MappingAlone
<1>2. CASE ~mapper.mapped  BY <1>2 DEF Keeps, Holds
<1>3. CASE Stopped \/ StartAgain \/ MapperNew
  <2>1. ~mapper.mapped  BY <1>3 DEF Stopped, StartAgain, MapperNew, ThreadInv
  <2> QED  BY <1>2, <2>1
<1> QED  BY <1>1, <1>2, <1>3, MapperStep DEF ThreadInv

LEMMA SettledKeeps ==
  ASSUME NEW rs, NEW m, NEW n, NEW adv, Settled(rs, m, adv),
         \A p : Holds(m, p) => Holds(n, p)
  PROVE  Settled(rs, n, adv)
BY DEF Settled

LEMMA AdvertisedStep == TypeOK /\ ThreadInv /\ AdvertisedInv /\ [Next]_vars => AdvertisedInv'
<1> SUFFICES ASSUME TypeOK, ThreadInv, AdvertisedInv, [Next]_vars
             PROVE  Settled(reports', mapper', win'.advertised)
  BY DEF AdvertisedInv
<1>0. /\ win \in Window /\ reports \in Seq(Report)
      /\ Settled(reports, mapper, win.advertised)
  BY DEF TypeOK, AdvertisedInv
<1>1. ASSUME NEW r \in Report, Post(r), ~Decides(r), UNCHANGED win, Keeps
      PROVE  Settled(reports', mapper', win'.advertised)
  BY <1>0, <1>1, SettledPost DEF Post, Keeps
<1>2. ASSUME NEW r \in Report, Post(r), Decides(r), Holds(mapper', PortOf(r)), UNCHANGED win
      PROVE  Settled(reports', mapper', win'.advertised)
  BY <1>0, <1>2, SettledPost DEF Post
<1>3. ASSUME UNCHANGED reports, win'.advertised = win.advertised, Keeps
      PROVE  Settled(reports', mapper', win'.advertised)
  BY <1>0, <1>3, SettledKeeps DEF Keeps
<1>4. ASSUME reports # <<>>, reports' = Tail(reports), UNCHANGED mapper,
             win'.advertised = IF Decides(Head(reports)) THEN PortOf(Head(reports)) ELSE win.advertised
      PROVE  Settled(reports', mapper', win'.advertised)
  BY <1>0, <1>4, SettledTake
<1>5. CASE ThreadBegins
  <2>1. Keeps  BY <1>5, KeepsStep DEF ThreadBegins, AttemptSucceeds, AttemptFails, ThreadEnds
  <2>2. [state |-> "trying"] \in Report /\ ~Decides([state |-> "trying"])  BY ReportTypes DEF Decides
  <2> QED  BY <1>1, <1>5, <2>1, <2>2 DEF ThreadBegins
<1>6. ASSUME NEW p \in ExternalPort, NEW lease \in Lease, NEW ip \in Wan, AttemptSucceeds(p, lease, ip)
      PROVE  Settled(reports', mapper', win'.advertised)
  <2> DEFINE r == [state |-> "mapped", port |-> p]
  <2>1. r \in Report /\ Decides(r) /\ PortOf(r) = p  BY ReportTypes DEF Decides, PortOf
  <2>2. Holds(mapper', p)  BY <1>6, MapperFields DEF Holds
  <2>3. Post(r) /\ UNCHANGED win  BY <1>6 DEF AttemptSucceeds
  <2> HIDE DEF r
  <2> QED  BY <1>2, <2>1, <2>2, <2>3
<1>7. CASE AttemptFails
  <2>1. CASE mapper.mapped \/ ~mapper.ever
    <3>1. PICK r \in {[state |-> "lost"], [state |-> "failed"]} : Post(r)
      BY <1>7, <2>1 DEF AttemptFails
    <3>2. r \in Report /\ Decides(r) /\ PortOf(r) = Port  BY ReportTypes DEF Decides, PortOf
    <3>3. Holds(mapper', Port)  BY DEF Holds
    <3> QED  BY <1>2, <1>7, <3>1, <3>2, <3>3 DEF AttemptFails
  <2>2. CASE ~mapper.mapped /\ mapper.ever
    <3>1. Keeps  BY <2>2 DEF Keeps, Holds
    <3> QED  BY <1>3, <1>7, <2>2, <3>1 DEF AttemptFails
  <2> QED  BY <2>1, <2>2
<1>8. CASE Probe
  <2>1. Keeps  BY <1>8, KeepsStep DEF Probe, AttemptSucceeds, AttemptFails, ThreadEnds
  <2>2. PICK v \in {-1, Verdict(mapper.ip, Direct)} : Post([state |-> "reach", reachable |-> v])
    BY <1>8 DEF Probe
  <2>3. v \in {-1, 0, 1}  BY DEF Verdict, TypeOK, Mapper, Wan
  <2> DEFINE r == [state |-> "reach", reachable |-> v]
  <2>4. r \in Report /\ ~Decides(r)  BY <2>3, ReportTypes DEF Decides
  <2>5. Post(r) /\ UNCHANGED win  BY <1>8, <2>2 DEF Probe
  <2> HIDE DEF r
  <2> QED  BY <1>1, <2>1, <2>4, <2>5
<1>9. CASE ThreadEnds
  <2>1. CASE mapper.ever
    <3> DEFINE r == [state |-> "removed"]
    <3>1. r \in Report /\ Decides(r) /\ PortOf(r) = Port  BY ReportTypes DEF Decides, PortOf
    <3>2. Holds(mapper', Port)  BY DEF Holds
    <3> QED  BY <1>2, <1>9, <2>1, <3>1, <3>2 DEF ThreadEnds
  <2>2. CASE ~mapper.ever
    <3>1. Keeps  BY <2>2 DEF Keeps, Holds, ThreadInv
    <3> QED  BY <1>3, <1>9, <2>2, <3>1 DEF ThreadEnds
  <2> QED  BY <2>1, <2>2
<1>10. CASE ReachReport
  <2>1. win'.advertised = win.advertised  BY <1>0, <1>10 DEF ReachReport, Window
  <2> QED  BY <1>4, <1>10, <2>1 DEF ReachReport, Decides
<1>11. CASE MappedReport
  <2>1. win'.advertised = Head(reports).port  BY <1>0, <1>11 DEF MappedReport, Window
  <2> QED  BY <1>4, <1>11, <2>1 DEF MappedReport, Decides, PortOf
<1>12. CASE UnmappedReport
  <2>1. win'.advertised = Port  BY <1>0, <1>12 DEF UnmappedReport, Window
  <2> QED  BY <1>4, <1>12, <2>1 DEF UnmappedReport, Decides, PortOf
<1>13. CASE TryingReport
  BY <1>4, <1>13 DEF TryingReport, Decides
<1>14. CASE StartAgain
  <2>1. reports' = <<>> /\ win'.advertised = Port  BY <1>14 DEF StartAgain, NewWindow
  <2> QED  BY <2>1 DEF Settled, Holds
<1>15. CASE \/ LoopTop \/ ToggleAutoPortForward \/ Stopped \/ TestReachability \/ ToggleFirewalled
            \/ Quit \/ RouterStopsAnswering \/ RouterAnswersAgain \/ Tick \/ UNCHANGED vars
  <2>1. UNCHANGED reports
    BY <1>15 DEF LoopTop, ToggleAutoPortForward, Stopped, TestReachability, ToggleFirewalled,
                 Quit, RouterStopsAnswering, RouterAnswersAgain, Tick, vars
  <2>2. win'.advertised = win.advertised
    BY <1>0, <1>15 DEF LoopTop, ToggleAutoPortForward, Stopped, TestReachability, ToggleFirewalled,
                 Quit, RouterStopsAnswering, RouterAnswersAgain, Tick, vars, StopPortMapper, Window
  <2>3. CASE Keeps
    BY <1>3, <2>1, <2>2, <2>3
  <2> QED  BY <1>6, <1>7, <1>9, <2>3, KeepsStep
<1> QED
  BY <1>5, <1>6, <1>7, <1>8, <1>9, <1>10, <1>11, <1>12, <1>13, <1>14, <1>15
     DEF Next, ThreadStep, HandleReport, Command, Outside

\* NotAdvertisedInVain: when the reports have been handled (the window's
\* BESHARE_PORT_MAP_REPORT), a port other than our own is advertised only while
\* the mapper holds a mapping for that very port, however many threads were
\* stopped and started and however many reports were waiting.
THEOREM AdvertisedPortIsMapped == Spec => []NotAdvertisedInVain
<1>1. Init => AdvertisedInv
  BY DEF Init, AdvertisedInv, Settled, Holds, NewWindow
<1>2. AdvertisedInv => NotAdvertisedInVain
  BY DEF AdvertisedInv, Settled, Holds, NotAdvertisedInVain, Quiet
<1> QED  BY <1>1, <1>2, AdvertisedStep, TypeCorrect, ThreadIsSound, PTL DEF Spec

-----------------------------------------------------------------------------
(***************************************************************************)
(* The firewalled flag.                                                    *)
(***************************************************************************)
\* A report is sent while the reason goes from (a) to (b).
LEMMA JustifiedPost ==
  ASSUME NEW rs \in Seq(Report), NEW r \in Report,
         NEW open \in BOOLEAN, NEW a \in BOOLEAN, NEW b \in BOOLEAN,
         Justified(rs, open, a),
         Opens(r) => b,
         ~Switches(r) => (a => b)
  PROVE  Justified(Append(rs, r), open, b)
<1> DEFINE k == Len(rs)
           qs == Append(rs, r)
<1>0. /\ k \in Nat /\ Len(qs) = k + 1
      /\ \A i \in 1..k : qs[i] = rs[i]
      /\ qs[k + 1] = r
  BY Appended
<1> HIDE DEF qs
<1>1. ASSUME NEW i \in 1..(k + 1), Opens(qs[i]),
             \A j \in (i + 1)..(k + 1) : ~Switches(qs[j])
      PROVE  b
  <2>1. CASE i = k + 1
    BY <1>0, <1>1, <2>1
  <2>2. CASE i \in 1..k
    <3>1. ~Switches(r)  BY <1>0, <1>1, <2>2
    <3>2. \A j \in (i + 1)..k : ~Switches(rs[j])
      <4> TAKE j \in (i + 1)..k
      <4>1. j \in (i + 1)..(k + 1) /\ j \in 1..k  BY <1>0, <2>2
      <4> QED  BY <1>0, <1>1, <4>1
    <3>3. a  BY <1>0, <1>1, <2>2, <3>2 DEF Justified
    <3> QED  BY <3>1, <3>3
  <2> QED  BY <1>0, <2>1, <2>2
<1>2. ASSUME open, \A i \in 1..(k + 1) : ~Switches(qs[i])
      PROVE  b
  <2>1. ~Switches(r)  BY <1>0, <1>2
  <2>2. \A i \in 1..k : ~Switches(rs[i])
    <3> TAKE i \in 1..k
    <3>1. i \in 1..(k + 1)  BY <1>0
    <3> QED  BY <1>0, <1>2, <3>1
  <2>3. a  BY <1>2, <2>2 DEF Justified
  <2> QED  BY <2>1, <2>3
<1> QED
  <2> HIDE DEF k
  <2> QED  BY <1>0, <1>1, <1>2 DEF Justified, qs

\* The first report is handled, which leaves the flag open (after).
LEMMA JustifiedTake ==
  ASSUME NEW rs \in Seq(Report), rs # <<>>,
         NEW open \in BOOLEAN, NEW after \in BOOLEAN, NEW reason \in BOOLEAN,
         Justified(rs, open, reason),
         after => Opens(Head(rs)) \/ (open /\ ~Switches(Head(rs)))
  PROVE  Justified(Tail(rs), after, reason)
<1> DEFINE k == Len(rs)
           qs == Tail(rs)
<1>0. /\ k \in Nat /\ k >= 1 /\ Len(qs) = k - 1
      /\ Head(rs) = rs[1]
      /\ \A i \in 1..(k - 1) : qs[i] = rs[i + 1]
  BY Taken
<1> HIDE DEF qs
<1>1. ASSUME NEW i \in 1..(k - 1), Opens(qs[i]),
             \A j \in (i + 1)..(k - 1) : ~Switches(qs[j])
      PROVE  reason
  <2>1. i + 1 \in 1..k /\ rs[i + 1] = qs[i]  BY <1>0
  <2>2. \A j \in ((i + 1) + 1)..k : ~Switches(rs[j])
    <3> TAKE j \in ((i + 1) + 1)..k
    <3>1. j - 1 \in (i + 1)..(k - 1) /\ j - 1 \in 1..(k - 1) /\ (j - 1) + 1 = j  BY <1>0
    <3> QED  BY <1>0, <1>1, <3>1
  <2> QED  BY <1>1, <2>1, <2>2 DEF Justified
<1>2. ASSUME after, \A i \in 1..(k - 1) : ~Switches(qs[i])
      PROVE  reason
  <2>1. \A i \in 2..k : ~Switches(rs[i])
    <3> TAKE i \in 2..k
    <3>1. i - 1 \in 1..(k - 1) /\ (i - 1) + 1 = i  BY <1>0
    <3> QED  BY <1>0, <1>2, <3>1
  <2>2. CASE Opens(rs[1])
    <3>1. 1 \in 1..k /\ \A j \in (1 + 1)..k : ~Switches(rs[j])  BY <1>0, <2>1
    <3> QED  BY <2>2, <3>1 DEF Justified
  <2>3. CASE ~Opens(rs[1])
    <3>1. open /\ ~Switches(rs[1])  BY <1>0, <1>2, <2>3
    <3>2. \A i \in 1..k : ~Switches(rs[i])
      <4> TAKE i \in 1..k
      <4>1. i = 1 \/ i \in 2..k  BY <1>0
      <4> QED  BY <2>1, <3>1, <4>1
    <3> QED  BY <3>1, <3>2 DEF Justified
  <2> QED  BY <2>2, <2>3
<1> QED
  <2> HIDE DEF k
  <2> QED  BY <1>0, <1>1, <1>2 DEF Justified, qs

LEMMA JustifiedKeeps ==
  ASSUME NEW rs, NEW open, NEW a, NEW b, Justified(rs, open, a), a => b
  PROVE  Justified(rs, open, b)
BY DEF Justified

\* The reason stays, except when a mapping is lost or a thread ends that has
\* had one, both of which are reported.
LEMMA ReasonStep ==
  ASSUME TypeOK, ThreadInv, [Next]_vars
  PROVE  \/ Reason => Reason'
         \/ AttemptFails /\ mapper.mapped
         \/ ThreadEnds /\ mapper.ever
         \/ StartAgain
<1>1. CASE MappingAlone
  BY <1>1 DEF MappingAlone, Reason
<1>2. CASE MapperNew \/ Stopped
  <2>1. Reason => Direct
    BY <1>2 DEF MapperNew, Stopped, Reason, ThreadInv
  <2> QED  BY <2>1 DEF Reason
<1>3. CASE \E p \in ExternalPort, lease \in Lease, ip \in Wan : AttemptSucceeds(p, lease, ip)
  BY <1>3, MapperFields DEF Reason
<1>4. CASE AttemptFails /\ ~mapper.mapped
  BY <1>4, MapperFields DEF Reason
<1>5. CASE ThreadEnds /\ ~mapper.ever
  <2>1. Reason => Direct
    BY <1>5 DEF Reason, ThreadInv
  <2> QED  BY <2>1 DEF Reason
<1> QED  BY <1>1, <1>2, <1>3, <1>4, <1>5, MapperStep

LEMMA OpenStep == TypeOK /\ ThreadInv /\ OpenInv /\ [Next]_vars => OpenInv'
<1> DEFINE Goal == win'.manages /\ win'.intended =>
                     /\ win'.firewalled \/ win'.cleared
                     /\ Justified(reports', ~win'.firewalled, Reason')
<1> SUFFICES ASSUME TypeOK, ThreadInv, OpenInv, [Next]_vars PROVE Goal
  BY DEF OpenInv
<1>0. /\ win \in Window /\ reports \in Seq(Report)
      /\ win.firewalled \in BOOLEAN
      /\ Reason \in BOOLEAN /\ Reason' \in BOOLEAN
  BY TypeStep DEF TypeOK, Window, Reason
<1> DEFINE SameFlags == /\ win'.manages = win.manages /\ win'.intended = win.intended
                        /\ win'.firewalled = win.firewalled /\ win'.cleared = win.cleared
<1>1. ASSUME NEW r \in Report, Post(r), SameFlags, Opens(r) => Reason',
             ~Switches(r) => (Reason => Reason')
      PROVE  Goal
  <2> SUFFICES ASSUME win.manages, win.intended
               PROVE  Justified(reports', ~win.firewalled, Reason')
    BY <1>1 DEF OpenInv
  <2>1. Justified(reports, ~win.firewalled, Reason)  BY DEF OpenInv
  <2>2. (~win.firewalled) \in BOOLEAN  BY <1>0
  <2> QED  BY <1>0, <1>1, <2>1, <2>2, JustifiedPost DEF Post
<1>2. ASSUME UNCHANGED reports, SameFlags, Reason => Reason'
      PROVE  Goal
  BY <1>2, JustifiedKeeps DEF OpenInv
<1>3. ASSUME reports # <<>>, reports' = Tail(reports), UNCHANGED mapper,
             win'.manages = win.manages, win'.intended = win.intended,
             win'.firewalled \in BOOLEAN,
             win.manages /\ win.intended =>
               /\ win'.firewalled \/ win'.cleared
               /\ ~win'.firewalled =>
                    Opens(Head(reports)) \/ (~win.firewalled /\ ~Switches(Head(reports)))
      PROVE  Goal
  <2> SUFFICES ASSUME win.manages, win.intended
               PROVE  Justified(reports', ~win'.firewalled, Reason')
    BY <1>3
  <2>1. Justified(reports, ~win.firewalled, Reason)  BY DEF OpenInv
  <2>2. (~win.firewalled) \in BOOLEAN /\ (~win'.firewalled) \in BOOLEAN  BY <1>0, <1>3
  <2>3. Reason' = Reason  BY <1>3 DEF Reason
  <2>4. ~win'.firewalled => Opens(Head(reports)) \/ (~win.firewalled /\ ~Switches(Head(reports)))
    BY <1>3
  <2>5. Justified(Tail(reports), ~win'.firewalled, Reason)
    BY <1>0, <1>3, <2>1, <2>2, <2>4, JustifiedTake
  <2> QED  BY <1>3, <2>3, <2>5
<1> HIDE DEF Goal
<1>4. CASE ThreadBegins
  <2> DEFINE r == [state |-> "trying"]
  <2>1. Reason => Reason'
    BY <1>4, ReasonStep DEF ThreadBegins, AttemptFails, ThreadEnds, StartAgain
  <2>2. r \in Report /\ ~Switches(r)  BY ReportTypes DEF Switches, Opens, Closes
  <2>3. Post(r) /\ SameFlags  BY <1>4 DEF ThreadBegins
  <2>4. ~Opens(r)  BY <2>2 DEF Switches
  <2> HIDE DEF r, SameFlags
  <2> QED  BY <1>1, <2>1, <2>2, <2>3, <2>4
<1>5. ASSUME NEW p \in ExternalPort, NEW lease \in Lease, NEW ip \in Wan, AttemptSucceeds(p, lease, ip)
      PROVE  Goal
  <2> DEFINE r == [state |-> "mapped", port |-> p]
  <2>1. Reason'  BY <1>5, MapperFields DEF Reason
  <2>2. r \in Report  BY ReportTypes
  <2>3. Post(r) /\ SameFlags  BY <1>5 DEF AttemptSucceeds
  <2> HIDE DEF r, SameFlags
  <2> QED  BY <1>1, <2>1, <2>2, <2>3
<1>6. CASE AttemptFails
  <2>1. CASE mapper.mapped \/ ~mapper.ever
    <3>1. PICK r \in {[state |-> "lost"], [state |-> "failed"]} : Post(r)
      BY <1>6, <2>1 DEF AttemptFails
    <3>2. r \in Report /\ Switches(r) /\ ~Opens(r)  BY ReportTypes DEF Switches, Opens, Closes
    <3>3. SameFlags  BY <1>6 DEF AttemptFails
    <3> HIDE DEF SameFlags
    <3> QED  BY <1>1, <3>1, <3>2, <3>3
  <2>2. CASE ~mapper.mapped /\ mapper.ever
    <3>1. Reason => Reason'  BY <1>6, <2>2, MapperFields DEF Reason
    <3>2. UNCHANGED reports /\ SameFlags  BY <1>6, <2>2 DEF AttemptFails
    <3> HIDE DEF SameFlags
    <3> QED  BY <1>2, <3>1, <3>2
  <2> QED  BY <2>1, <2>2
<1>7. CASE Probe
  <2>1. Reason => Reason'
    BY <1>7, ReasonStep DEF Probe, AttemptFails, ThreadEnds, StartAgain
  <2>2. PICK v \in {-1, Verdict(mapper.ip, Direct)} : Post([state |-> "reach", reachable |-> v])
    BY <1>7 DEF Probe
  <2>3. v \in {-1, 0, 1}  BY DEF Verdict, TypeOK, Mapper, Wan
  <2> DEFINE r == [state |-> "reach", reachable |-> v]
  <2>4. r \in Report  BY <2>3, ReportTypes
  \* A probe says that we can be reached only if our address is the internet's.
  <2>5. v = 1 => Reason
    BY <1>7, DirectAssumption DEF Verdict, Reason, Probe, TypeOK, Mapper, Wan
  <2>6. Opens(r) => v = 1  BY DEF Opens
  <2>7. Post(r) /\ SameFlags  BY <1>7, <2>2 DEF Probe
  <2> HIDE DEF r, SameFlags
  <2> QED  BY <1>1, <2>1, <2>4, <2>5, <2>6, <2>7
<1>8. CASE ThreadEnds
  <2>1. CASE mapper.ever
    <3> DEFINE r == [state |-> "removed"]
    <3>1. r \in Report /\ Switches(r) /\ ~Opens(r)  BY ReportTypes DEF Switches, Opens, Closes
    <3>2. Post(r) /\ SameFlags  BY <1>8, <2>1 DEF ThreadEnds
    <3> HIDE DEF r, SameFlags
    <3> QED  BY <1>1, <3>1, <3>2
  <2>2. CASE ~mapper.ever
    <3>1. Reason => Reason'
      BY <1>8, <2>2, ReasonStep DEF AttemptFails, ThreadEnds, StartAgain
    <3>2. UNCHANGED reports /\ SameFlags  BY <1>8, <2>2 DEF ThreadEnds
    <3> HIDE DEF SameFlags
    <3> QED  BY <1>2, <3>1, <3>2
  <2> QED  BY <2>1, <2>2
<1>9. CASE ReachReport
  <2> DEFINE h == Head(reports)
             switch == win.manages /\ h.reachable # -1 /\ win.firewalled # (h.reachable = 0)
  <2>0. /\ h.state = "reach" /\ h.reachable \in {-1, 0, 1}
        /\ reports # <<>> /\ reports' = Tail(reports) /\ UNCHANGED mapper
    BY <1>0, <1>9, HeadType DEF ReachReport
  <2>1. CASE switch
    <3>1. /\ win'.manages = win.manages /\ win'.intended = win.intended
          /\ win'.firewalled = (h.reachable = 0) /\ win'.cleared = ~(h.reachable = 0)
      BY <1>0, <1>9, <2>1, Zenon DEF ReachReport, Window
    <3>2. ~win'.firewalled => Opens(h)  BY <2>0, <2>1, <3>1 DEF Opens
    <3> QED  BY <1>3, <2>0, <3>1, <3>2
  <2>2. CASE ~switch
    <3>1. win' = win  BY <1>9, <2>2, Zenon DEF ReachReport
    <3>2. win.manages /\ ~win.firewalled => Opens(h) \/ ~Switches(h)
      BY <1>0, <2>0, <2>2 DEF Opens, Switches, Closes
    <3> QED  BY <1>0, <1>3, <2>0, <3>1, <3>2 DEF OpenInv
  <2> QED  BY <2>1, <2>2
<1>10. CASE MappedReport
  <2>1. SameFlags  BY <1>0, <1>10 DEF MappedReport, Window
  <2>2. ~Switches(Head(reports))  BY <1>10 DEF MappedReport, Switches, Opens, Closes
  <2> QED  BY <1>0, <1>3, <1>10, <2>1, <2>2 DEF MappedReport, OpenInv
<1>11. CASE UnmappedReport
  <2>0. /\ reports # <<>> /\ reports' = Tail(reports) /\ UNCHANGED mapper
    BY <1>11 DEF UnmappedReport
  <2>1. win'.manages = win.manages /\ win'.intended = win.intended
    BY <1>0, <1>11 DEF UnmappedReport, Window
  <2>2. CASE win.manages /\ win.cleared
    <3>1. win'.firewalled = win.intended  BY <1>0, <1>11, <2>2, Zenon DEF UnmappedReport, Window
    <3> QED  BY <1>0, <1>3, <2>0, <2>1, <3>1 DEF Window
  <2>3. CASE ~(win.manages /\ win.cleared)
    <3>1. win'.firewalled = win.firewalled /\ win'.cleared = win.cleared
      BY <1>0, <1>11, <2>3, Zenon DEF UnmappedReport, Window
    <3> QED  BY <1>0, <1>3, <2>0, <2>1, <2>3, <3>1 DEF OpenInv
  <2> QED  BY <2>2, <2>3
<1>12. CASE TryingReport
  <2>1. ~Switches(Head(reports))  BY <1>12 DEF TryingReport, Switches, Opens, Closes
  <2> QED  BY <1>0, <1>3, <1>12, <2>1 DEF TryingReport, OpenInv
<1>13. CASE StartAgain
  <2>1. reports' = <<>> /\ win'.firewalled = Persisted(win) /\ win'.intended = Persisted(win)
    BY <1>13 DEF StartAgain, NewWindow
  <2> QED  BY <2>1 DEF Goal, Justified
<1>14. CASE ToggleFirewalled
  <2>1. ~win'.manages  BY <1>0, <1>14 DEF ToggleFirewalled, Window
  <2> QED  BY <2>1 DEF Goal
<1>15. CASE \/ LoopTop \/ ToggleAutoPortForward \/ Stopped \/ TestReachability
            \/ Quit \/ RouterStopsAnswering \/ RouterAnswersAgain \/ Tick \/ UNCHANGED vars
  <2>1. UNCHANGED reports
    BY <1>15 DEF LoopTop, ToggleAutoPortForward, Stopped, TestReachability,
                 Quit, RouterStopsAnswering, RouterAnswersAgain, Tick, vars
  <2>2. SameFlags
    BY <1>0, <1>15 DEF LoopTop, ToggleAutoPortForward, Stopped, TestReachability,
                 Quit, RouterStopsAnswering, RouterAnswersAgain, Tick, vars, StopPortMapper, Window
  <2>3. CASE Reason => Reason'
    <3> HIDE DEF SameFlags
    <3> QED  BY <1>2, <2>1, <2>2, <2>3
  <2> QED  BY <1>6, <1>8, <1>13, <2>3, ReasonStep
<1> QED
  BY <1>4, <1>5, <1>6, <1>7, <1>8, <1>9, <1>10, <1>11, <1>12, <1>13, <1>14, <1>15
     DEF Next, ThreadStep, HandleReport, Command, Outside

\* NotLeftOpen: a user who is to be firewalled and whose flag the mapper has
\* cleared (the window's BESHARE_PORT_MAP_REPORT) has it set again when the
\* mapping is gone, once the reports have been handled; unless our own address
\* is the internet's, or the address of a lost mapping still is.
THEOREM FirewallIsRestored == Spec => []NotLeftOpen
<1>1. Init => OpenInv
  BY DEF Init, OpenInv, Justified, NewWindow
<1>2. OpenInv => NotLeftOpen
  BY DEF OpenInv, Justified, Reason, NotLeftOpen, Quiet, StaleAddress
<1> QED  BY <1>1, <1>2, OpenStep, TypeCorrect, ThreadIsSound, PTL DEF Spec

=============================================================================
