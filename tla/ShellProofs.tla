---------------------------- MODULE ShellProofs -----------------------------
(***************************************************************************)
(* Proofs about Shell for any paths, entries and number of navigations.    *)
(*                                                                         *)
(* What the newest navigation shows follows from what it waits for, and    *)
(* that from the order in which navigate sets the address and counts.      *)
(***************************************************************************)
EXTENDS Shell, SequenceTheorems, TLAPS

\* A navigation that waits has been started.
FlightsStarted == \A f \in flights : f.n <= serial

\* The newest navigation waits for the page of the address.
NewestAwaitsLocation == \A f \in flights : f.n = serial => f.api = parseRoute(Location).api

\* Without navigation entries navigate fails before it counts.
NothingStarted == phase = "boot" \/ nav = Null => serial = 0

\* What the newest navigation shows is the page of the address.
NewestShows ==
    phase = "ready" /\ content.n = serial /\ serial > 0 => content.api = parseRoute(Location).api

\* The inductive invariant.
ShellInv ==
    /\ ShellTypeOK
    /\ FlightsStarted /\ NewestAwaitsLocation /\ NothingStarted
    /\ HighlightFollowsLocation /\ NewestShows

-----------------------------------------------------------------------------
(* Routing *)

\* The endpoint of an address of the documented form has the same segments.
LEMMA EndpointIsAddress ==
    ASSUME NEW path \in Paths, WellFormed(path)
    PROVE  parseRoute(path).api = path
<1>1. path \in Seq(Segments) /\ Len(path) \in Nat
  BY ShellAssumption
<1>2. SubSeq(path, 1, Len(path)) = path
  BY <1>1, SubSeqFull
<1>3. CASE Len(path) = 2
  BY <1>1, <1>3 DEF parseRoute
<1>4. CASE Len(path) = 3
  BY <1>1, <1>2, <1>4 DEF parseRoute
<1>5. CASE Len(path) = 4 /\ path[3] # "create" /\ path[4] = "edit"
  BY <1>1, <1>2, <1>5 DEF parseRoute
<1>6. QED
  BY <1>3, <1>4, <1>5 DEF WellFormed

\* navigate ends at an address of the application.
LEMMA RedirectedType ==
    ASSUME NEW path \in Paths, NEW modules \in Seq(Listings)
    PROVE  Redirected(path, modules) \in Paths
<1>1. modules # <<>> => modules[1] \in Listings
  OBVIOUS
<1>2. Listings \subseteq Paths
  BY ShellAssumption
<1>3. QED
  BY <1>1, <1>2 DEF Redirected

\* A page has an endpoint.
LEMMA EndpointType ==
    ASSUME NEW path \in Paths, HasPage(path)
    PROVE  parseRoute(path).api \in Endpoints
BY DEF HasPage, Endpoints

\* pushState keeps the entries up to the current one and adds the new ones.
LEMMA PushedType ==
    ASSUME ShellTypeOK, NEW paths \in Seq(Paths)
    PROVE  Pushed(paths) \in Seq(Paths) /\ Len(Pushed(paths)) = at + Len(paths) /\ at \in Nat
<1>1. hist \in Seq(Paths) /\ at \in DOMAIN hist
  BY DEF ShellTypeOK
<1>2. at \in 1..Len(hist) /\ at \in Nat /\ Len(hist) \in Nat
  BY <1>1
<1>3. SubSeq(hist, 1, at) \in Seq(Paths) /\ Len(SubSeq(hist, 1, at)) = at
  BY <1>1, <1>2
<1>4. QED
  BY <1>2, <1>3, ConcatProperties DEF Pushed

-----------------------------------------------------------------------------
(* navigate *)

\* The parts of the type invariant that navigate changes.
LEMMA NavigateTypes ==
    ASSUME ShellInv, NEW entries \in Seq(Paths), NEW i \in DOMAIN entries,
           NEW modules \in Seq(Listings), modules # Null, NEW times \in {1, 2},
           navigate(entries, i, modules, times)
    PROVE  /\ hist' \in Seq(Paths) /\ at' \in DOMAIN hist'
           /\ Location' = Redirected(entries[i], modules) /\ active' = Location'
           /\ Location' \in Paths
           /\ flights' \subseteq Flight
           /\ serial' \in 0..MaxNavigations /\ serial' > serial
           /\ content' \in Content /\ content'.n = 0
           /\ current' \in 0..serial' /\ mounted' \subseteq 1..serial'
           /\ FlightsStarted' /\ NewestAwaitsLocation'
<1>1. PICK to : to = Redirected(entries[i], modules)
  OBVIOUS
<1>2. entries[i] \in Paths /\ to \in Paths
  BY <1>1, RedirectedType
<1>3. /\ at' = i /\ serial + times <= MaxNavigations
      /\ hist' = [entries EXCEPT ![i] = to] /\ active' = to
      /\ serial' = serial + times /\ mounted' = mounted \ {current} /\ current' = 0
      /\ \/ /\ HasPage(to) /\ content' = Shows("loading")
            /\ flights' = flights \cup
                    [n: serial + 1 .. serial + times, api: {parseRoute(to).api}]
         \/ content' = Shows("empty") /\ flights' = flights
  BY <1>1 DEF navigate, Entered, updateActiveNav
<1>4. hist' \in Seq(Paths) /\ at' \in DOMAIN hist' /\ Location' = to
  BY <1>2, <1>3 DEF Location
<1>5. serial \in 0..MaxNavigations /\ mounted \subseteq 1..serial /\ flights \subseteq Flight
  BY DEF ShellInv, ShellTypeOK
<1>6. serial' \in 0..MaxNavigations /\ serial' > serial /\ current' \in 0..serial'
  BY <1>3, <1>5, ShellAssumption
<1>7. mounted' \subseteq 1..serial'
  BY <1>3, <1>5, ShellAssumption
<1>8. content' \in Content /\ content'.n = 0
  BY <1>3 DEF Content, Shows
<1>9. ASSUME NEW f \in flights'
      PROVE  f \in Flight /\ f.n <= serial' /\ (f.n = serial' => f.api = parseRoute(to).api)
  <2>1. CASE f \in flights
    <3>1. f \in Flight /\ f.n \in Nat /\ f.n <= serial
      BY <1>5, <2>1, ShellAssumption DEF Flight, ShellInv, FlightsStarted
    <3>2. QED
      BY <1>5, <1>6, <3>1, ShellAssumption
  <2>2. CASE f \notin flights
    <3>1. HasPage(to) /\ f \in [n: serial + 1 .. serial + times, api: {parseRoute(to).api}]
      BY <1>3, <1>9, <2>2
    <3>2. parseRoute(to).api \in Endpoints
      BY <1>2, <3>1, EndpointType
    <3>3. f.n \in serial + 1 .. serial + times /\ f.api = parseRoute(to).api
      BY <3>1
    <3>4. serial + 1 .. serial + times \subseteq 1..MaxNavigations
      BY <1>3, <1>5, ShellAssumption
    <3>5. f \in Flight
      BY <3>1, <3>2, <3>4 DEF Flight
    <3>6. f.n <= serial'
      BY <1>3, <1>5, <3>3, ShellAssumption
    <3>7. QED
      BY <3>3, <3>5, <3>6
  <2>3. QED
    BY <2>1, <2>2
<1>10. FlightsStarted' /\ NewestAwaitsLocation' /\ flights' \subseteq Flight
  BY <1>4, <1>9 DEF FlightsStarted, NewestAwaitsLocation
<1>11. QED
  BY <1>1, <1>2, <1>3, <1>4, <1>6, <1>7, <1>8, <1>10

\* A handler that navigates, with entries or without, preserves the invariant.
LEMMA StepNavigate ==
    ASSUME ShellInv, NEW entries \in Seq(Paths), NEW i \in DOMAIN entries,
           NEW modules, modules = Null \/ modules \in Seq(Listings), NEW times \in {1, 2},
           navigate(entries, i, modules, times),
           phase' = "ready", nav' = modules, modules = Null => serial = 0
    PROVE  ShellInv'
<1>1. CASE modules # Null
  <2>1. modules \in Seq(Listings)
    BY <1>1
  <2>2. /\ hist' \in Seq(Paths) /\ at' \in DOMAIN hist'
        /\ active' = Location' /\ Location' \in Paths
        /\ flights' \subseteq Flight
        /\ serial' \in 0..MaxNavigations /\ serial' > serial
        /\ content' \in Content /\ content'.n = 0
        /\ current' \in 0..serial' /\ mounted' \subseteq 1..serial'
        /\ FlightsStarted' /\ NewestAwaitsLocation'
    BY <1>1, <2>1, NavigateTypes
  <2>3. ShellTypeOK'
    BY <2>1, <2>2 DEF ShellTypeOK
  <2>4. NothingStarted' /\ HighlightFollowsLocation'
    BY <1>1, <2>2 DEF NothingStarted, HighlightFollowsLocation
  <2>5. NewestShows'
    BY <2>2, ShellAssumption DEF NewestShows
  <2>6. QED
    BY <2>2, <2>3, <2>4, <2>5 DEF ShellInv
<1>2. CASE modules = Null
  <2>1. /\ at' = i /\ hist' = entries
        /\ UNCHANGED <<active, flights, serial, content, current, mounted>>
    BY <1>2 DEF navigate
  <2>2. serial' = 0
    BY <1>2, <2>1
  <2>3. flights' = {}
    <3>1. ASSUME NEW f \in flights PROVE FALSE
      <4>1. f.n \in 1..MaxNavigations /\ f.n <= 0
        BY <1>2, <3>1 DEF ShellInv, ShellTypeOK, Flight, FlightsStarted
      <4>2. QED
        BY <4>1, ShellAssumption
    <3>2. QED
      BY <2>1, <3>1
  <2>4. ShellTypeOK'
    BY <1>2, <2>1 DEF ShellInv, ShellTypeOK
  <2>5. FlightsStarted' /\ NewestAwaitsLocation' /\ NothingStarted'
    BY <2>2, <2>3 DEF FlightsStarted, NewestAwaitsLocation, NothingStarted
  <2>6. HighlightFollowsLocation' /\ NewestShows'
    BY <1>2, <2>2 DEF HighlightFollowsLocation, NewestShows
  <2>7. QED
    BY <2>4, <2>5, <2>6 DEF ShellInv
<1>3. QED
  BY <1>1, <1>2

-----------------------------------------------------------------------------
(* The handlers *)

\* A new document has nothing under way.
LEMMA NewDocument ==
    ASSUME NEW path \in Paths, phase = "boot", nav = <<>>, hist = <<path>>, at = 1,
           active = Null, flights = {}, serial = 0, content = Shows("static"),
           current = 0, mounted = {}
    PROVE  ShellInv
<1>1. hist \in Seq(Paths) /\ at \in DOMAIN hist /\ nav \in Seq(Listings)
  OBVIOUS
<1>2. content \in Content
  BY DEF Content, Shows
<1>3. serial \in 0..MaxNavigations /\ current \in 0..serial
  BY ShellAssumption
<1>4. ShellTypeOK
  BY <1>1, <1>2, <1>3 DEF ShellTypeOK
<1>5. QED
  BY <1>4 DEF ShellInv, FlightsStarted, NewestAwaitsLocation, NothingStarted,
              HighlightFollowsLocation, NewestShows

\* The user opens or reloads the shell.
LEMMA StepDocument ==
    ASSUME NEW entries \in Seq(Paths), NEW i \in DOMAIN entries, Document(entries, i)
    PROVE  ShellInv'
<1>1. hist' \in Seq(Paths) /\ at' \in DOMAIN hist' /\ nav' \in Seq(Listings)
  BY DEF Document
<1>2. content' \in Content
  BY DEF Document, Content, Shows
<1>3. serial' \in 0..MaxNavigations /\ current' \in 0..serial'
  BY ShellAssumption DEF Document
<1>4. ShellTypeOK'
  BY <1>1, <1>2, <1>3 DEF ShellTypeOK, Document
<1>5. QED
  BY <1>4 DEF ShellInv, FlightsStarted, NewestAwaitsLocation, NothingStarted,
              HighlightFollowsLocation, NewestShows, Document

\* The first navigation of a document.
LEMMA StepBoot ==
    ASSUME ShellInv, Boot
    PROVE  ShellInv'
<1>1. PICK modules \in loadNav : nav' = modules /\ navigate(hist, at, modules, 1)
  BY DEF Boot
<1>2. modules = Null \/ modules \in Seq(Listings)
  <2>1. <<>> \in Seq(Listings) /\ \A p \in Listings : <<p>> \in Seq(Listings)
    OBVIOUS
  <2>2. modules = Null \/ modules = <<>> \/ \E p \in Listings : modules = <<p>>
    BY <1>1 DEF loadNav
  <2>3. QED
    BY <2>1, <2>2
<1>3. hist \in Seq(Paths) /\ at \in DOMAIN hist /\ serial = 0 /\ phase' = "ready"
  BY DEF ShellInv, ShellTypeOK, NothingStarted, Boot
<1>4. QED
  BY <1>1, <1>2, <1>3, StepNavigate

\* A link, from the page or from an instance that is mounted.
LEMMA StepFollow ==
    ASSUME ShellInv, NEW path \in Paths, navigate(Pushed(<<path>>), at + 1, nav, 1),
           phase = "ready", UNCHANGED <<phase, nav>>
    PROVE  ShellInv'
<1>1. <<path>> \in Seq(Paths) /\ Len(<<path>>) = 1
  OBVIOUS
<1>2. Pushed(<<path>>) \in Seq(Paths) /\ Len(Pushed(<<path>>)) = at + 1 /\ at \in Nat
  BY <1>1, PushedType DEF ShellInv
<1>3. at + 1 \in DOMAIN Pushed(<<path>>)
  BY <1>2
<1>4. (nav = Null \/ nav \in Seq(Listings)) /\ (nav = Null => serial = 0)
  BY DEF ShellInv, ShellTypeOK, NothingStarted
<1>5. QED
  BY <1>2, <1>3, <1>4, StepNavigate

\* A click on the sidebar, which navigates twice.
LEMMA StepNavClick ==
    ASSUME ShellInv, handleNavClick
    PROVE  ShellInv'
<1>1. PICK i \in DOMAIN nav : navigate(Pushed(<<nav[i], nav[i]>>), at + 2, nav, 2)
  BY DEF handleNavClick
<1>2. nav \in Seq(Listings) /\ nav # Null /\ phase = "ready" /\ UNCHANGED <<phase, nav>>
  BY DEF handleNavClick, ShellInv, ShellTypeOK
<1>3. nav[i] \in Paths
  BY <1>1, <1>2, ShellAssumption
<1>4. <<nav[i], nav[i]>> \in Seq(Paths) /\ Len(<<nav[i], nav[i]>>) = 2
  BY <1>3
<1>5. PICK twice : twice = <<nav[i], nav[i]>>
  OBVIOUS
<1>6. Pushed(twice) \in Seq(Paths) /\ Len(Pushed(twice)) = at + 2 /\ at \in Nat
  BY <1>4, <1>5, PushedType DEF ShellInv
<1>7. at + 2 \in DOMAIN Pushed(twice)
  BY <1>6
<1>8. QED
  BY <1>1, <1>2, <1>5, <1>6, <1>7, StepNavigate

\* Back and forward.
LEMMA StepPopState ==
    ASSUME ShellInv, PopState
    PROVE  ShellInv'
<1>1. PICK i \in DOMAIN hist : navigate(hist, i, nav, 1)
  BY DEF PopState
<1>2. /\ nav = Null \/ nav \in Seq(Listings)
      /\ nav = Null => serial = 0
      /\ hist \in Seq(Paths) /\ phase' = "ready" /\ nav' = nav
  BY DEF ShellInv, ShellTypeOK, NothingStarted, PopState
<1>3. QED
  BY <1>1, <1>2, StepNavigate

\* A response that is shown, as a page or as an error.
LEMMA StepShown ==
    ASSUME ShellInv, NEW f \in flights, Embed(f) \/ ShowError(f)
    PROVE  ShellInv'
<1>1. /\ phase = "ready" /\ flights' = flights \ {f}
      /\ content'.n = f.n /\ content'.api = f.api
      /\ current' \in {current, f.n} /\ mounted' \subseteq mounted \cup {f.n}
      /\ UNCHANGED <<phase, nav, hist, at, active, serial>>
  BY DEF Embed, ShowError
<1>2. f \in Flight /\ f.n \in 1..MaxNavigations /\ f.api \in Endpoints /\ f.n <= serial
  BY DEF ShellInv, ShellTypeOK, Flight, FlightsStarted
<1>3. f.n \in 0..serial /\ f.n \in 1..serial
  <2>1. serial \in Nat /\ f.n \in Nat /\ f.n >= 1
    BY <1>2, ShellAssumption DEF ShellInv, ShellTypeOK
  <2>2. QED
    BY <1>2, <2>1
<1>4. content' \in Content
  BY <1>2 DEF Embed, ShowError, Content
<1>5. ShellTypeOK'
  BY <1>1, <1>3, <1>4 DEF ShellInv, ShellTypeOK
<1>6. FlightsStarted' /\ NewestAwaitsLocation' /\ NothingStarted' /\ HighlightFollowsLocation'
  BY <1>1 DEF ShellInv, FlightsStarted, NewestAwaitsLocation, NothingStarted,
              HighlightFollowsLocation, Location
<1>7. NewestShows'
  BY <1>1 DEF ShellInv, NewestAwaitsLocation, NewestShows, Location
<1>8. QED
  BY <1>5, <1>6, <1>7 DEF ShellInv

\* The browser leaves for the login page.
LEMMA StepLeave ==
    ASSUME ShellInv, Leave
    PROVE  ShellInv'
<1>1. ShellTypeOK'
  BY DEF ShellInv, ShellTypeOK, Leave
<1>2. QED
  BY <1>1 DEF ShellInv, FlightsStarted, NewestAwaitsLocation, NothingStarted,
              HighlightFollowsLocation, NewestShows, Leave

\* Every step preserves the invariant.
LEMMA ShellStep == ShellInv /\ [ShellNext]_shellVars => ShellInv'
<1>1. SUFFICES ASSUME ShellInv, [ShellNext]_shellVars PROVE ShellInv'
  OBVIOUS
<1>2. CASE Boot
  BY <1>1, <1>2, StepBoot
<1>3. CASE handleNavClick
  BY <1>1, <1>3, StepNavClick
<1>4. CASE ClickLink \/ jumpTo
  BY <1>1, <1>4, StepFollow DEF ClickLink, jumpTo
<1>5. CASE PopState
  BY <1>1, <1>5, StepPopState
<1>6. ASSUME NEW f \in flights, Respond(f) PROVE ShellInv'
  BY <1>1, <1>6, StepShown, StepLeave DEF Respond, Denied
<1>7. CASE FetcherDenied
  BY <1>1, <1>7, StepLeave DEF FetcherDenied
<1>8. CASE Load
  <2>1. \A path \in Paths : <<path>> \in Seq(Paths) /\ 1 \in DOMAIN <<path>>
    OBVIOUS
  <2>2. QED
    BY <1>8, <2>1, StepDocument DEF Load
<1>9. CASE Reload
  BY <1>1, <1>9, StepDocument DEF Reload, ShellInv, ShellTypeOK
<1>10. CASE UNCHANGED shellVars
  BY <1>1, <1>10 DEF shellVars, ShellInv, ShellTypeOK, FlightsStarted, NewestAwaitsLocation,
                    NothingStarted, HighlightFollowsLocation, NewestShows, Location
<1>11. QED
  BY <1>1, <1>2, <1>3, <1>4, <1>5, <1>6, <1>7, <1>8, <1>9, <1>10 DEF ShellNext

-----------------------------------------------------------------------------
(* Theorems *)

\* The inductive invariant of the shell: the newest navigation waits for, and
\* later shows, the page of the address.
THEOREM ShellInvHolds == ShellSpec => []ShellInv
<1>1. ShellInit => ShellInv
  BY NewDocument DEF ShellInit
<1>2. QED
  BY <1>1, ShellStep, PTL DEF ShellSpec

\* Type correctness: the address is an entry of the history, and nothing is
\* mounted or shown that no navigation has embedded.
THEOREM ShellTypeCorrect == ShellSpec => []ShellTypeOK
<1>1. ShellInv => ShellTypeOK
  BY DEF ShellInv
<1>2. QED
  BY <1>1, ShellInvHolds, PTL

\* Sidebar and breadcrumb show the address, through redirects, double clicks,
\* back and forward, for any navigation tree.
THEOREM HighlightIsLocation == ShellSpec => []HighlightFollowsLocation
<1>1. ShellInv => HighlightFollowsLocation
  BY DEF ShellInv
<1>2. QED
  BY <1>1, ShellInvHolds, PTL

\* Whatever the order of responses, the page of the newest navigation is that
\* of the address, for every address of the documented form.
THEOREM NewestIsLocation == ShellSpec => []NewestShowsLocation
<1>1. ASSUME ShellInv PROVE NewestShowsLocation
  <2>1. Location \in Paths
    BY <1>1 DEF ShellInv, ShellTypeOK, Location
  <2>2. WellFormed(Location) => parseRoute(Location).api = Location
    BY <2>1, EndpointIsAddress
  <2>3. QED
    BY <1>1, <2>2 DEF ShellInv, NewestShows, NewestShowsLocation
<1>2. QED
  BY <1>1, ShellInvHolds, PTL
=============================================================================
