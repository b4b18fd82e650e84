----------------------------- MODULE PortMapper -----------------------------
(***************************************************************************)
(* The port mapper and what the window makes of it: a thread that asks the *)
(* router to forward a port, renews the lease, probes whether peers can    *)
(* reach us, and reports each of these to the window; and the window,      *)
(* which advertises the port, manages the "I'm Firewalled" flag by the     *)
(* reports, and keeps what the user has chosen over a restart.             *)
(*                                                                         *)
(* The window handles one message at a time, reports in the order they     *)
(* were sent.  Stop waits for the thread, so that all but the thread, the  *)
(* router and the clock stand still meanwhile (win.call).                  *)
(*                                                                         *)
(* Time is counted in units of 30 seconds.                                 *)
(***************************************************************************)
EXTENDS Integers, Sequences

CONSTANTS
  Port,        \* the accept port
  AltPort,     \* other external ports a router may grant
  Direct,      \* our local address is the one the internet sees
  Lease,       \* the leases a router may grant
  RetryIn,     \* RETRY_SECONDS
  MayFail,     \* whether the router ever stops answering
  MaxReports   \* reports waiting when the user or the clock acts

ASSUME DirectAssumption == {Direct, MayFail} \subseteq BOOLEAN
ASSUME PortAssumption   == {Port} \cup AltPort \subseteq Nat \ {0}
ASSUME LeaseAssumption  == Lease \subseteq Nat \ {0} /\ RetryIn \in Nat \ {0}
ASSUME BoundAssumption  == MaxReports \in Nat

VARIABLES
  win,      \* the window
  mapper,   \* the PortMapper with its thread
  router,   \* the router, and the address the internet sees
  reports,  \* BESHARE_PORT_MAP_REPORTs under way
  wish      \* history: what the user last said about firewalls

vars == <<win, mapper, router, reports, wish>>

ExternalPort == {Port} \cup AltPort

\* A router's own address: none given, the one the internet sees of us, or
\* another one (private, or not ours alone).
Wan == {"none", "ours", "other"}

Window ==
  [firewalled : BOOLEAN,       \* NetClient()->GetFirewalled()
   intended   : BOOLEAN,       \* _userIntendedFirewalled
   manages    : BOOLEAN,       \* _mapperManagesFirewalled
   cleared    : BOOLEAN,       \* _mapperClearedFirewalled
   auto       : BOOLEAN,       \* _autoPortForwardEnabled
   advertised : ExternalPort,  \* of the primary connection, SetAdvertisedPort
   call       : {"none", "stop", "quit"}]

Mapper ==
  [phase  : {"off", "start", "loop", "attempt", "probe", "exit", "gone"},
   keep   : BOOLEAN,           \* _keepRunning
   asked  : BOOLEAN,           \* _probeRequested
   mapped : BOOLEAN,           \* _isMapped, currentlyMapped, _activeMethod
   ever   : BOOLEAN,           \* everMapped
   ip     : Wan,               \* _externalIP
   port   : {0} \cup ExternalPort,
   due    : Int]               \* nextAttempt; -1: overdue

Router ==
  [well   : BOOLEAN,           \* it answers, by one of the three protocols
   wan    : Wan,
   lease  : Nat,               \* time left of the mapping made last
   intact : BOOLEAN]           \* history: not rebooted since

Report == [state : {"trying", "failed", "lost", "removed"}]
            \cup [state : {"mapped"}, port : ExternalPort]
            \cup [state : {"reach"}, reachable : {-1, 0, 1}]

Off == [phase |-> "off", keep |-> FALSE, asked |-> FALSE, mapped |-> FALSE,
        ever |-> FALSE, ip |-> "none", port |-> 0, due |-> 0]

-----------------------------------------------------------------------------
(* PortMapper::_ThreadLoop.                                                 *)

Post(m) == reports' = Append(reports, m)

ThreadBegins ==
  /\ mapper.phase = "start"
  /\ mapper' = [mapper EXCEPT !.phase = "loop"]
  /\ Post([state |-> "trying"])
  /\ UNCHANGED <<win, router, wish>>

\* A turn of the loop: the end of it, an attempt whose time has come, or a
\* probe that was asked for.
LoopTop ==
  /\ mapper.phase = "loop"
  /\ ~mapper.keep \/ mapper.due <= 0 \/ mapper.asked
  /\ mapper' = CASE ~mapper.keep                   -> [mapper EXCEPT !.phase = "exit"]
                 [] mapper.keep /\ mapper.due <= 0 -> [mapper EXCEPT !.phase = "attempt"]
                 [] OTHER -> [mapper EXCEPT !.phase = "probe", !.asked = FALSE]
  /\ UNCHANGED <<win, router, reports, wish>>

\* As RenewIn, at the end of the lease.
RenewAtTheEnd(lease) == lease

RenewIn(lease) == IF lease > 2 THEN lease \div 2 ELSE 1

\* As AttemptSucceeds, reporting the port of the time before.
AttemptReportedEarly(p, lease, ip) ==
  /\ mapper.phase = "attempt"
  /\ router.well
  /\ ip \in {"none", router.wan}
  /\ mapper' = [mapper EXCEPT !.phase = "loop", !.mapped = TRUE, !.ever = TRUE,
                  !.port = p, !.ip = ip, !.asked = @ \/ ~mapper.mapped, !.due = RenewIn(lease)]
  /\ router' = [router EXCEPT !.lease = lease, !.intact = TRUE]
  /\ Post([state |-> "mapped", port |-> mapper.port])
  /\ UNCHANGED <<win, wish>>

\* _PCPMap, _NatPMPMap or _UPnPMap succeeds.  A router need not tell its
\* address.
AttemptSucceeds(p, lease, ip) ==
  /\ mapper.phase = "attempt"
  /\ router.well
  /\ ip \in {"none", router.wan}
  /\ mapper' = [mapper EXCEPT !.phase = "loop", !.mapped = TRUE, !.ever = TRUE,
                  !.port = p, !.ip = ip, !.asked = @ \/ ~mapper.mapped, !.due = RenewIn(lease)]
  /\ router' = [router EXCEPT !.lease = lease, !.intact = TRUE]
  /\ Post([state |-> "mapped", port |-> p])
  /\ UNCHANGED <<win, wish>>

\* As AttemptFails, giving up when there has never been a mapping.
AttemptFailsForGood ==
  /\ mapper.phase = "attempt"
  /\ ~router.well \/ ~mapper.keep
  /\ mapper' = [mapper EXCEPT !.phase = IF mapper.ever THEN "loop" ELSE "exit",
                  !.mapped = FALSE, !.port = 0, !.due = RetryIn]
  /\ IF mapper.mapped THEN Post([state |-> "lost"])
     ELSE IF ~mapper.ever THEN Post([state |-> "failed"])
     ELSE UNCHANGED reports
  /\ UNCHANGED <<win, router, wish>>

\* None of the three does: the router is not there, or _keepRunning was
\* cleared on the way.
AttemptFails ==
  /\ mapper.phase = "attempt"
  /\ ~router.well \/ ~mapper.keep
  /\ mapper' = [mapper EXCEPT !.phase = "loop", !.mapped = FALSE, !.port = 0, !.due = RetryIn]
  /\ IF mapper.mapped THEN Post([state |-> "lost"])
     ELSE IF ~mapper.ever THEN Post([state |-> "failed"])
     ELSE UNCHANGED reports
  /\ UNCHANGED <<win, router, wish>>

\* What _RunReachabilityProbe finds when it has learnt our internet address.
Verdict(ip, direct) ==
  CASE ip = "other" -> 0
    [] ip = "ours"  -> 1
    [] ip = "none"  -> IF direct THEN 1 ELSE 0

Probe ==
  /\ mapper.phase = "probe"
  /\ mapper' = [mapper EXCEPT !.phase = "loop"]
  /\ \E r \in {-1, Verdict(mapper.ip, Direct)} :
       Post([state |-> "reach", reachable |-> r])
  /\ UNCHANGED <<win, router, wish>>

\* _PCPUnmap, _NatPMPUnmap or _UPnPUnmap, if the mapper thinks it is mapped.
ThreadEnds ==
  /\ mapper.phase = "exit"
  /\ mapper' = [mapper EXCEPT !.phase = "gone", !.mapped = FALSE, !.port = 0]
  /\ router' = [router EXCEPT !.lease = IF mapper.mapped /\ router.well THEN 0 ELSE @]
  /\ IF mapper.ever THEN Post([state |-> "removed"]) ELSE UNCHANGED reports
  /\ UNCHANGED <<win, wish>>

ThreadStep ==
  \/ ThreadBegins
  \/ LoopTop
  \/ \E p \in ExternalPort, lease \in Lease, ip \in Wan : AttemptSucceeds(p, lease, ip)
  \/ AttemptFails
  \/ Probe
  \/ ThreadEnds

-----------------------------------------------------------------------------
(* The window.                                                              *)

Idle == win.call = "none"
Room == Len(reports) < MaxReports

\* StartPortMapper; (ok) tells whether a thread could be spawned.
Started(m, ok) ==
  IF m.phase # "off" \/ ~ok THEN m ELSE [Off EXCEPT !.phase = "start", !.keep = TRUE]

\* StopPortMapper, and (call) when the thread is gone.
StopPortMapper(w, call) ==
  /\ win' = [w EXCEPT !.call = IF mapper.phase = "off" /\ call = "stop" THEN "none" ELSE call]
  /\ mapper' = [mapper EXCEPT !.keep = FALSE]

ToggleAutoPortForward ==
  /\ Idle /\ Room
  /\ LET w == [win EXCEPT !.auto = ~@]
     IN  IF w.auto
         THEN /\ win' = w
              /\ \E ok \in BOOLEAN : mapper' = Started(mapper, ok)
         ELSE StopPortMapper(w, "stop")
  /\ UNCHANGED <<router, reports, wish>>

\* wait_for_thread returns.
Stopped ==
  /\ win.call = "stop"
  /\ mapper.phase = "gone"
  /\ win' = [win EXCEPT !.call = "none"]
  /\ mapper' = Off
  /\ UNCHANGED <<router, reports, wish>>

TestReachability ==
  /\ Idle /\ Room
  /\ \E ok \in BOOLEAN :
       LET m == Started(mapper, ok)
       IN  mapper' = IF m.phase = "off" THEN m ELSE [m EXCEPT !.asked = TRUE]
  /\ UNCHANGED <<win, router, reports, wish>>

ToggleFirewalled ==
  /\ Idle
  /\ win' = [win EXCEPT !.manages = FALSE, !.cleared = FALSE,
               !.intended = ~win.firewalled, !.firewalled = ~win.firewalled]
  /\ wish' = ~win.firewalled
  /\ UNCHANGED <<mapper, router, reports>>

\* A reachability verdict.
ReachReport ==
  /\ Idle /\ reports # <<>> /\ Head(reports).state = "reach"
  /\ LET reachable == Head(reports).reachable
         want      == reachable = 0
     IN  win' = IF win.manages /\ reachable # -1 /\ win.firewalled # want
                THEN [win EXCEPT !.firewalled = want, !.cleared = ~want]
                ELSE win
  /\ reports' = Tail(reports)
  /\ UNCHANGED <<mapper, router, wish>>

MappedReport ==
  /\ Idle /\ reports # <<>> /\ Head(reports).state = "mapped"
  /\ win' = [win EXCEPT !.advertised = Head(reports).port]
  /\ reports' = Tail(reports)
  /\ UNCHANGED <<mapper, router, wish>>

\* As UnmappedReport, leaving the flag alone.
UnmappedStillOpen ==
  /\ Idle /\ reports # <<>> /\ Head(reports).state \in {"lost", "failed", "removed"}
  /\ win' = [win EXCEPT !.advertised = Port]
  /\ reports' = Tail(reports)
  /\ UNCHANGED <<mapper, router, wish>>

\* As UnmappedReport, leaving the port alone.
UnmappedSamePort ==
  /\ Idle /\ reports # <<>> /\ Head(reports).state \in {"lost", "failed", "removed"}
  /\ win' = IF win.manages /\ win.cleared
            THEN [win EXCEPT !.cleared = FALSE, !.firewalled = win.intended]
            ELSE win
  /\ reports' = Tail(reports)
  /\ UNCHANGED <<mapper, router, wish>>

UnmappedReport ==
  /\ Idle /\ reports # <<>> /\ Head(reports).state \in {"lost", "failed", "removed"}
  /\ LET w == [win EXCEPT !.advertised = Port]
     IN  win' = IF w.manages /\ w.cleared
                THEN [w EXCEPT !.cleared = FALSE, !.firewalled = w.intended]
                ELSE w
  /\ reports' = Tail(reports)
  /\ UNCHANGED <<mapper, router, wish>>

TryingReport ==
  /\ Idle /\ reports # <<>> /\ Head(reports).state = "trying"
  /\ reports' = Tail(reports)
  /\ UNCHANGED <<win, mapper, router, wish>>

-----------------------------------------------------------------------------
(* The program ends and is started again.                                   *)

\* As Persisted, whoever has set the flag.
PersistedAsItIs(w) == w.firewalled

\* GenerateSettingsMessage
Persisted(w) == IF w.cleared THEN w.intended ELSE w.firewalled

NewWindow(firewalled, auto) ==
  [firewalled |-> firewalled, intended |-> firewalled, manages |-> TRUE, cleared |-> FALSE,
   auto |-> auto, advertised |-> Port, call |-> "none"]

\* ~ShareWindow: the settings first (the window's fields stay as they are
\* until the program is gone), then StopPortMapper.
Quit ==
  /\ Idle
  /\ StopPortMapper(win, "quit")
  /\ UNCHANGED <<router, reports, wish>>

\* The reports that were not handled are gone with the window.
StartAgain ==
  /\ win.call = "quit"
  /\ mapper.phase \in {"off", "gone"}
  /\ win' = NewWindow(Persisted(win), win.auto)
  /\ \E ok \in BOOLEAN : mapper' = IF win.auto THEN Started(Off, ok) ELSE Off
  /\ reports' = <<>>
  /\ UNCHANGED <<router, wish>>

-----------------------------------------------------------------------------
(* The router and time.                                                     *)

RouterStopsAnswering ==
  /\ MayFail
  /\ router.well
  /\ router' = [router EXCEPT !.well = FALSE]
  /\ UNCHANGED <<win, mapper, reports, wish>>

\* It may have been rebooted, and have another address now.
RouterAnswersAgain ==
  /\ ~router.well
  /\ \E rebooted \in BOOLEAN, w \in Wan \ {"none"} :
       router' = [router EXCEPT !.well = TRUE,
                    !.wan = IF rebooted THEN w ELSE @,
                    !.lease = IF rebooted THEN 0 ELSE @,
                    !.intact = @ /\ ~rebooted]
  /\ UNCHANGED <<win, mapper, reports, wish>>

\* The thread looks at the clock every 250 ms, so that a time that has come
\* does not pass unnoticed; an attempt or a probe takes less than a unit.
Tick ==
  /\ Len(reports) <= MaxReports
  /\ \/ mapper.phase \in {"off", "gone"}
     \/ mapper.due > 0
     \/ mapper.due = 0 /\ mapper.phase \in {"attempt", "probe"}
  /\ router.lease > 0 \/ mapper.due > 0
  /\ router' = [router EXCEPT !.lease = IF @ > 0 THEN @ - 1 ELSE 0]
  /\ mapper' = IF mapper.phase \in {"off", "gone"} THEN mapper
               ELSE [mapper EXCEPT !.due = @ - 1]
  /\ UNCHANGED <<win, reports, wish>>

-----------------------------------------------------------------------------
Init ==
  /\ \E f, a \in BOOLEAN :
       /\ win = NewWindow(f, a)
       /\ \E ok \in BOOLEAN : mapper = IF a THEN Started(Off, ok) ELSE Off
       /\ wish = f
  /\ \E w \in Wan \ {"none"} :
       router = [well |-> TRUE, wan |-> w, lease |-> 0, intact |-> TRUE]
  /\ reports = <<>>

HandleReport == ReachReport \/ MappedReport \/ UnmappedReport \/ TryingReport

Command == \/ ToggleAutoPortForward \/ TestReachability \/ ToggleFirewalled
           \/ Quit

Outside == RouterStopsAnswering \/ RouterAnswersAgain

Next == ThreadStep \/ HandleReport \/ Stopped \/ StartAgain \/ Command \/ Outside \/ Tick

Spec == Init /\ [][Next]_vars

\* The thread runs, the window handles its messages, and time goes by.
LiveSpec == /\ Spec
            /\ WF_vars(ThreadStep)
            /\ WF_vars(HandleReport)
            /\ SF_vars(Tick)

-----------------------------------------------------------------------------
(* Properties.                                                              *)

\* The type invariant: ports reported are ports granted, and the time of the next
\* attempt never passes by more than one unit.
TypeOK ==
  /\ win \in Window
  /\ mapper \in Mapper /\ mapper.due >= -1
  /\ router \in Router
  /\ reports \in Seq(Report)
  /\ wish \in BOOLEAN

Quiet == Idle /\ reports = <<>>

\* After LOST, _externalIP is still the router's former address.
StaleAddress == mapper.phase # "off" /\ mapper.ip = "ours" /\ ~mapper.mapped

\* A user who is to be firewalled, and whose flag the mapper has cleared, is
\* not left so when the mapping is gone: once the reports have been handled,
\* there is a mapping.  (A probe that finds us reachable by a stale address is
\* the exception the code makes.)
NotLeftOpen ==
  Quiet /\ win.manages /\ win.intended /\ ~win.firewalled
    => mapper.mapped \/ Direct \/ StaleAddress

\* When the reports have been handled, a port other than our own is only
\* advertised while the mapper holds a mapping for that very port, however
\* often mappers were stopped and started meanwhile.
NotAdvertisedInVain ==
  Quiet /\ win.advertised # Port => mapper.mapped /\ mapper.port = win.advertised

\* Whoever has chosen to be firewalled finds that choice in the settings,
\* whatever the mapper did to the flag and however often the program was
\* restarted.
WishKept == wish => win.intended /\ Persisted(win)

\* As long as the mapper thinks there is a mapping, the lease has not run out,
\* unless the router was rebooted: renewals come in time.
LeaseHeld == mapper.mapped /\ router.intact => router.lease > 0

Healthy == mapper.phase # "off" /\ mapper.keep /\ router.well

\* If the router answers from some time on, the mapping comes (back), and the
\* window learns of it.
MappedAgain ==
  <>[]Healthy => []<>(mapper.mapped /\ win.advertised = mapper.port)

-----------------------------------------------------------------------------
(* Claims of the code's comments that it does not keep; README, section 3.  *)

\* "Persist the user's own firewalled preference, not the mapper's temporary
\* runtime override": what is saved is what the user chose.
PersistsPreference == Persisted(win) = wish

\* "blocks until the router mapping has been removed": there is none when the
\* thread is gone.
StopRemovesMapping == mapper.phase = "gone" => router.lease = 0
=============================================================================
