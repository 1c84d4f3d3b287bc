------------------------------- MODULE Shell --------------------------------
(***************************************************************************)
(* The single-page shell of the front end (awo/web.old/src/main.js): the   *)
(* sidebar, the address bar, and the AMIS page that navigate fetches and   *)
(* embeds. Event handlers run one at a time and are atomic; a navigation   *)
(* waits for its response, and responses arrive in any order.              *)
(*                                                                         *)
(* The server of this commit (awo/cmd/server) serves its successor,        *)
(* awo/web/pages/index.html, whose router is a shorter version of this     *)
(* one: it redirects no address and navigates once per click.              *)
(*                                                                         *)
(* A path is the sequence of segments after /ui.                           *)
(***************************************************************************)
EXTENDS Naturals, Sequences

CONSTANTS
    Segments,       \* parts of a path: names, identifiers, "create" and "edit"
    Paths,          \* addresses the user opens and links lead to
    Listings,       \* listUrls of the entries that a nav answer may hold
    MaxNavigations, \* bound on calls of navigate in one document
    MaxHistory,     \* bound on the history of a document that is reloaded
    Null            \* JSON null, no path

ASSUME ShellAssumption ==
    /\ Paths \subseteq Seq(Segments)
    /\ Listings \subseteq {p \in Paths : Len(p) = 2}
    /\ MaxNavigations \in Nat /\ MaxHistory \in Nat
    /\ Null \notin Paths

VARIABLES
    phase,      \* "boot": loadNav is in flight; "ready"; "left": redirected
    nav,        \* navModules: a sequence of listUrls, or Null
    hist, at,   \* the session history of the document and its current entry
    active,     \* the path that sidebar and breadcrumb last showed
    flights,    \* navigations that wait for their response
    serial,     \* calls of navigate so far
    content,    \* what #content shows
    current,    \* currentInstance: the navigation that embedded it, or 0
    mounted     \* AMIS instances that are embedded and not unmounted

shellVars == <<phase, nav, hist, at, active, flights, serial, content, current, mounted>>

-----------------------------------------------------------------------------
(* Routing *)

parseRoute_EditIsDetail(parts) ==
    CASE Len(parts) = 0 -> [type |-> "home", api |-> Null]
      [] Len(parts) = 1 -> [type |-> "module", api |-> Null]
      [] Len(parts) = 2 -> [type |-> "list", api |-> parts]
      [] OTHER -> [type |-> "detail", api |-> SubSeq(parts, 1, 3)]

\* The route of a path and the SDUI endpoint that describes its page.
parseRoute(parts) ==
    CASE Len(parts) = 0 -> [type |-> "home", api |-> Null]
      [] Len(parts) = 1 -> [type |-> "module", api |-> Null]
      [] Len(parts) = 2 -> [type |-> "list", api |-> parts]
      [] Len(parts) > 2 /\ parts[3] = "create" -> [type |-> "create", api |-> SubSeq(parts, 1, 3)]
      [] Len(parts) > 3 /\ parts[3] # "create" /\ parts[4] = "edit" ->
            [type |-> "edit", api |-> SubSeq(parts, 1, 4)]
      [] OTHER -> [type |-> "detail", api |-> SubSeq(parts, 1, 3)]

HasPage(path) == parseRoute(path).api # Null

\* Home and bare modules lead to the first entity's list, if there is one.
Redirected(path, modules) ==
    IF ~HasPage(path) /\ modules # <<>> THEN modules[1] ELSE path

-----------------------------------------------------------------------------
(* Types *)

Location == hist[at]

Endpoints == {parseRoute(p).api : p \in Paths} \ {Null}

Flight == [n: 1..MaxNavigations, api: Endpoints]

Content == [kind: {"static", "loading", "empty"}, n: {0}, api: {Null}]
    \cup [kind: {"page", "error"}, n: 1..MaxNavigations, api: Endpoints]

Shows(kind) == [kind |-> kind, n |-> 0, api |-> Null]

\* Types of the variables.
ShellTypeOK ==
    /\ phase \in {"boot", "ready", "left"}
    /\ nav = Null \/ nav \in Seq(Listings)
    /\ hist \in Seq(Paths) /\ at \in DOMAIN hist
    /\ active \in Paths \cup {Null}
    /\ flights \subseteq Flight
    /\ serial \in 0..MaxNavigations
    /\ content \in Content
    /\ current \in 0..serial
    /\ mounted \subseteq 1..serial

-----------------------------------------------------------------------------
(* Navigating *)

\* A new document at entry i of a history; index.html shows a static spinner.
Document(entries, i) ==
    /\ phase' = "boot" /\ nav' = <<>>
    /\ hist' = entries /\ at' = i
    /\ active' = Null
    /\ flights' = {} /\ serial' = 0
    /\ content' = Shows("static")
    /\ current' = 0 /\ mounted' = {}

Entered_PushOnly(entries, i, to) == entries

\* replaceState before the redirected navigation.
Entered(entries, i, to) == [entries EXCEPT ![i] = to]

\* Sidebar and breadcrumb show the entry whose listUrl the path extends.
updateActiveNav(path) == active' = path

\* times calls of navigate for entry i of the history, with navModules as they
\* are then. updateBreadcrumb throws a TypeError when navModules is null; the
\* address has changed by then and nothing else will.
navigate(entries, i, modules, times) ==
    LET to == Redirected(entries[i], modules) IN
    /\ at' = i
    /\ serial + times <= MaxNavigations
    /\ IF modules = Null
       THEN hist' = entries /\ UNCHANGED <<active, flights, serial, content, current, mounted>>
       ELSE /\ hist' = Entered(entries, i, to)
            /\ updateActiveNav(to)
            /\ serial' = serial + times
            /\ mounted' = mounted \ {current}
            /\ current' = 0
            /\ IF HasPage(to)
               THEN /\ content' = Shows("loading")
                    /\ flights' = flights \cup
                        [n: serial + 1 .. serial + times, api: {parseRoute(to).api}]
               ELSE content' = Shows("empty") /\ UNCHANGED flights

\* pushState: entries after the current one are dropped.
Pushed(paths) == SubSeq(hist, 1, at) \o paths

\* loadNav ends with entries, with null (a JSON body that renderNav fails on),
\* with an empty list, or with an error that leaves navModules empty.
loadNav == {<<>>, Null} \cup {<<p>> : p \in Listings}

\* Then the shell navigates to its address.
Boot ==
    /\ phase = "boot"
    /\ phase' = "ready"
    /\ \E modules \in loadNav :
        nav' = modules /\ navigate(hist, at, modules, 1)

\* A click on a sidebar entry: handleNavClick pushes and navigates, and so does
\* the document's click listener, which the event reaches next.
handleNavClick ==
    /\ phase = "ready" /\ nav # Null
    /\ \E i \in DOMAIN nav : navigate(Pushed(<<nav[i], nav[i]>>), at + 2, nav, 2)
    /\ UNCHANGED <<phase, nav>>

\* A click on a link of the page that is shown.
ClickLink ==
    /\ phase = "ready" /\ content.kind = "page"
    /\ \E path \in Paths : navigate(Pushed(<<path>>), at + 1, nav, 1)
    /\ UNCHANGED <<phase, nav>>

\* An AMIS action of an embedded instance, shown or not, follows a link.
jumpTo ==
    /\ phase = "ready" /\ mounted # {}
    /\ \E path \in Paths : navigate(Pushed(<<path>>), at + 1, nav, 1)
    /\ UNCHANGED <<phase, nav>>

\* Back and forward within the document.
PopState ==
    /\ phase = "ready"
    /\ \E i \in DOMAIN hist \ {at} : navigate(hist, i, nav, 1)
    /\ UNCHANGED <<phase, nav>>

-----------------------------------------------------------------------------
(* Responses *)

\* The schema arrives and amis.embed mounts it.
Embed(f) ==
    /\ phase = "ready" /\ f \in flights
    /\ flights' = flights \ {f}
    /\ content' = [kind |-> "page", n |-> f.n, api |-> f.api]
    /\ current' = f.n
    /\ mounted' = mounted \cup {f.n}
    /\ UNCHANGED <<phase, nav, hist, at, active, serial>>

ShowError_LogOnly(f) ==
    /\ phase = "ready" /\ f \in flights
    /\ flights' = flights \ {f}
    /\ UNCHANGED <<phase, nav, hist, at, active, serial, content, current, mounted>>

ShowError_NoRoute(f) ==
    /\ phase = "ready" /\ f \in flights
    /\ flights' = flights \ {f}
    /\ content' = Shows("error")
    /\ UNCHANGED <<phase, nav, hist, at, active, serial, current, mounted>>

\* An HTTP error, a network error, a body that is not JSON, or no AMIS.
ShowError(f) ==
    /\ phase = "ready" /\ f \in flights
    /\ flights' = flights \ {f}
    /\ content' = [kind |-> "error", n |-> f.n, api |-> f.api]
    /\ UNCHANGED <<phase, nav, hist, at, active, serial, current, mounted>>

\* The browser leaves for the login page.
Leave ==
    /\ phase' = "left"
    /\ flights' = {}
    /\ UNCHANGED <<nav, hist, at, active, serial, content, current, mounted>>

\* 401 or 403 for the page.
Denied(f) == phase = "ready" /\ f \in flights /\ Leave

\* 401 for a data request that AMIS makes through env.fetcher.
FetcherDenied == phase = "ready" /\ mounted # {} /\ Leave

\* The user opens the shell.
Load == \E path \in Paths : Document(<<path>>, 1)

\* The user reloads it; the browser keeps the session history.
Reload == phase # "left" /\ Len(hist) <= MaxHistory /\ Document(hist, at)

-----------------------------------------------------------------------------

Respond(f) == Embed(f) \/ ShowError(f) \/ Denied(f)

ShellInit ==
    /\ phase = "boot" /\ nav = <<>>
    /\ hist \in {<<p>> : p \in Paths} /\ at = 1
    /\ active = Null
    /\ flights = {} /\ serial = 0
    /\ content = Shows("static")
    /\ current = 0 /\ mounted = {}

ShellNext ==
    \/ Boot \/ handleNavClick \/ ClickLink \/ jumpTo \/ PopState
    \/ \E f \in flights : Respond(f)
    \/ FetcherDenied \/ Load \/ Reload

ShellSpec == ShellInit /\ [][ShellNext]_shellVars

\* fetch settles: every request is answered or fails. Users need do nothing.
ShellFairSpec ==
    /\ ShellSpec
    /\ WF_shellVars(Boot)
    /\ \A f \in Flight : WF_shellVars(Respond(f))

-----------------------------------------------------------------------------
(* Properties *)

\* Sidebar and breadcrumb always point at the address in the address bar, after
\* redirects, clicks that navigate twice, back and forward.
HighlightFollowsLocation == phase = "ready" /\ nav # Null => active = Location

\* /{module}/{resource}[/create | /{id} | /{id}/edit]
WellFormed(path) ==
    \/ Len(path) \in {2, 3}
    \/ Len(path) = 4 /\ path[3] # "create" /\ path[4] = "edit"

\* Whatever the order of responses, when the page shown belongs to the newest
\* navigation it is the page of the address: URLs and endpoints map 1:1.
NewestShowsLocation ==
    phase = "ready" /\ content.n = serial /\ serial > 0 /\ WellFormed(Location)
        => content.api = Location

\* The spinner goes away: every navigation ends in a page, an error or a new
\* document, also when its response is overtaken by that of another.
NavigationSettles == content.kind = "loading" ~> content.kind # "loading" \/ phase = "left"
=============================================================================
