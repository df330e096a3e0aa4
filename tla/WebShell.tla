------------------------------ MODULE WebShell ------------------------------
(***************************************************************************)
(* The layout of the web application on top of a session: the ui slice of  *)
(* the store, and the class list of the #root element, from which the      *)
(* style sheet takes the layout.  The list has no owner: the pages replace *)
(* it while they are rendered, the effects of Main, the sign-in service    *)
(* and the reducers of the ui slice each add and remove classes.           *)
(*                                                                         *)
(* A dispatch, the rendering it causes and the effects of that rendering   *)
(* are one step: updates of the store, clicks and resizes are rendered     *)
(* synchronously and React runs the effects before the next event.         *)
(***************************************************************************)
EXTENDS Naturals

CONSTANTS
    Options,   \* the options of the control sidebar, by their class
    MaxStale   \* bound of WebSession

VARIABLES
    token, loggedIn, path, authed, main, stale, signIn,   \* see WebSession
    screen,     \* ui.screenSize
    collapsed,  \* ui.menuSidebarCollapsed
    control,    \* ui.controlSidebarCollapsed
    on,         \* the options that are true in the ui slice
    root        \* the class list of #root

Session == INSTANCE WebSession

session == <<token, loggedIn, path, authed, main, stale, signIn>>
sidebars == <<screen, collapsed, control>>
vars == <<session, sidebars, on, root>>

\* headerFixed, footerFixed, layoutBoxed, darkMode and layoutFixed.
AllOptions == {"layout-navbar-fixed", "layout-footer-fixed", "layout-boxed",
               "dark-mode", "layout-fixed"}

ASSUME OptionsAssumption == Options \subseteq AllOptions
ASSUME StaleAssumption == MaxStale \in Nat

\* calculateWindowSize.
Sizes == {"lg", "md", "sm", "xs"}

-----------------------------------------------------------------------------
(* The writers of the class list.                                          *)

LoginPage    == {"hold-transition", "login-page"}
RegisterPage == {"hold-transition", "register-page"}

\* setWindowClass in the rendering of a public page.
PageClasses(page) == IF page = "/register" THEN RegisterPage ELSE LoginPage

\* The effect of Main on [screenSize, menuSidebarCollapsed].
SidebarClasses(size, folded) ==
    IF folded /\ size = "lg" THEN {"sidebar-collapse"}
    ELSE IF folded /\ size = "xs" THEN {"sidebar-open"}
    ELSE IF ~folded /\ size # "lg" THEN {"sidebar-closed", "sidebar-collapse"}
    ELSE {}

\* The effect of Main on [screenSize, controlSidebarCollapsed].
ControlClasses(folded) == IF folded THEN {} ELSE {"control-sidebar-slide-open"}

EffectClasses == {"sidebar-closed", "sidebar-collapse", "sidebar-open",
                  "control-sidebar-slide-open"}

\* Mutant: the effect leaves a class that another size has added.
EffectsWithoutClosed(list, size, folded, ctl) ==
    (list \ (EffectClasses \ {"sidebar-closed"}))
        \cup SidebarClasses(size, folded) \cup ControlClasses(ctl)
\* Both effects take away what they may have added before.
Effects(list, size, folded, ctl) ==
    (list \ EffectClasses) \cup SidebarClasses(size, folded) \cup ControlClasses(ctl)

\* Mutant: Main replaces the class list.
MountedReplacing(list, size, folded, ctl) == Effects({"sidebar-mini"}, size, folded, ctl)
\* The effects of a Main that is mounted.
Mounted(list, size, folded, ctl) ==
    Effects((list \ (LoginPage \cup RegisterPage)) \cup {"sidebar-mini"},
            size, folded, ctl)

\* The public page that PublicRoute shows at an address, if any.
Public(at, auth) == at # "/" /\ ~auth

\* Mutant: a page adds its classes to the list.
RenderedAdding(list) ==
    root' = IF Public(path', authed') THEN list \cup PageClasses(path')
            ELSE IF main = "away" /\ main' # "away"
            THEN Mounted(list, screen', collapsed', control')
            ELSE IF main # "away" /\ main' = "away" THEN list \ {"sidebar-mini"}
            ELSE IF main' # "away" /\ sidebars' # sidebars
            THEN Effects(list, screen', collapsed', control') ELSE list
\* Rendering with the class list at hand: a public page replaces it, Main is
\* mounted or unmounted, or the dependencies of its effects have changed.
Rendered(list) ==
    root' = IF Public(path', authed') THEN PageClasses(path')
            ELSE IF main = "away" /\ main' # "away"
            THEN Mounted(list, screen', collapsed', control')
            ELSE IF main # "away" /\ main' = "away" THEN list \ {"sidebar-mini"}
            ELSE IF main' # "away" /\ sidebars' # sidebars
            THEN Effects(list, screen', collapsed', control') ELSE list

-----------------------------------------------------------------------------
(* Loading the application.                                                *)

\* The module of the slice adds the class of the one option that is on.
Initially == {"layout-footer-fixed"} \cap Options

\* The class list when the page at an address has been loaded.
Loaded(at, auth, size) ==
    IF auth THEN Initially
    ELSE IF Public(at, auth) THEN PageClasses(at)
    ELSE Mounted(Initially, size, FALSE, TRUE)

Init ==
    /\ Session!Init
    /\ screen \in Sizes
    /\ collapsed = FALSE /\ control = TRUE /\ on = Initially
    /\ root = Loaded(path, authed, screen)

Reload(to) ==
    /\ Session!Reload(to)
    /\ collapsed' = FALSE /\ control' = TRUE /\ on' = Initially
    /\ root' = Loaded(to, authed', screen)
    /\ UNCHANGED screen

-----------------------------------------------------------------------------
(* Steps of the session.                                                   *)

\* A step that renders what PublicRoute shows.
Shows(step) == step /\ UNCHANGED <<sidebars, on>> /\ Rendered(root)

\* A step that renders nothing that touches #root.
Silent(step) == step /\ UNCHANGED <<sidebars, on, root>>

\* The service takes the classes of its form away, whatever is shown by now.
SignedIn(form) ==
    /\ Session!SignedIn(form)
    /\ UNCHANGED <<sidebars, on>>
    /\ Rendered(root \ PageClasses(form))

\* setAuthLoading(false) renders the form if it is still there.
SignInFails(form) ==
    IF path = form THEN Shows(Session!SignInFails(form))
                   ELSE Silent(Session!SignInFails(form))

\* PublicRoute is rendered if isLoggedIn changes.
LateFailure ==
    IF loggedIn THEN Shows(Session!LateFailure) ELSE Silent(Session!LateFailure)

\* handleResize, and setWindowSize in the effect of App.
Resize(size) ==
    /\ Session!Rerender
    /\ screen' = size /\ UNCHANGED <<collapsed, control, on>>
    /\ Rendered(root)

\* A form keeps what is typed, and whether it was sent, in its own state: the
\* page alone is rendered again.
FillIn(page) ==
    /\ path = page /\ Public(path, authed)
    /\ root' = PageClasses(page)
    /\ UNCHANGED <<session, sidebars, on>>

FillForm == \E form \in Session!Forms : FillIn(form)

\* The password pages send nothing: 'Not yet functional'.
ForgotPassword  == FillIn("/forgot-password")
RecoverPassword == FillIn("/recover-password")

-----------------------------------------------------------------------------
(* The header and the control sidebar.                                     *)

\* Main has them when it has replaced the preloader.
AppShown == main = "loaded"

\* The button of the header, the box of the control sidebar, the overlay.
ToggleSidebarMenu ==
    /\ AppShown
    /\ collapsed' = ~collapsed
    /\ UNCHANGED <<session, screen, control, on>>
    /\ Rendered(root)

ToggleControlSidebar ==
    /\ AppShown
    /\ control' = ~control
    /\ UNCHANGED <<session, screen, collapsed, on>>
    /\ Rendered(root)

\* toggleLayoutFixed takes the class away when the option comes on.
AddsClass(option, isOn) == isOn = (option # "layout-fixed")

\* Mutant: the reducer of an option only ever adds its class.
ToggleAddingOnly(option) ==
    /\ on' = IF option \in on THEN on \ {option} ELSE on \cup {option}
    /\ root' = root \cup {option}
    /\ UNCHANGED <<session, sidebars>>
\* A reducer switches its option and writes the class list itself.
Toggle(option) ==
    /\ on' = IF option \in on THEN on \ {option} ELSE on \cup {option}
    /\ root' = IF AddsClass(option, option \in on')
               THEN root \cup {option} ELSE root \ {option}
    /\ UNCHANGED <<session, sidebars>>

\* handleDarkModeChange and the others dispatch it.
HandleChange(option) == AppShown /\ Toggle(option)

ControlSidebar == ToggleSidebarMenu \/ \E option \in Options : HandleChange(option)

-----------------------------------------------------------------------------
Pages ==
    \/ \E to \in Session!Paths : Reload(to) \/ Shows(Session!Follow(to))
    \/ \E form \in Session!Forms : SignedIn(form) \/ SignInFails(form)
    \/ Shows(Session!LogOut)
    \/ Shows(Session!Login)
    \/ Shows(Session!Register)
    \/ Shows(Session!Redirect)
    \/ FillForm \/ ForgotPassword \/ RecoverPassword
    \/ LateFailure
    \/ \E size \in Sizes : Resize(size)

Background ==
    \/ Silent(Session!Elsewhere)
    \/ Silent(Session!Answer)
    \/ Silent(Session!LateProfile)
    \/ Silent(Session!Wake)

Next == Pages \/ Background \/ ControlSidebar \/ ToggleControlSidebar

Spec == Init /\ [][Next]_vars

\* The service answers the profile request, and the timer expires.
FairSpec ==
    /\ Spec
    /\ WF_vars(Silent(Session!Answer)) /\ WF_vars(Silent(Session!Wake))

-----------------------------------------------------------------------------
\* Types of the session, the ui slice and the class list.
TypeOK ==
    /\ {token, loggedIn, authed, collapsed, control} \subseteq BOOLEAN
    /\ path \in Session!Paths /\ signIn \subseteq Session!Forms
    /\ main \in {"away", "loading", "sleeping", "loaded"}
    /\ stale \in 0..MaxStale
    /\ screen \in Sizes /\ on \subseteq Options
    /\ root \subseteq LoginPage \cup RegisterPage \cup EffectClasses
                        \cup {"sidebar-mini"} \cup Options

\* A public page that is shown has the class list to itself, and Main has no
\* class of a public page left, whichever of render, effect, service and
\* reducer wrote last.
PageDressed ==
    /\ Public(path, authed) => root = PageClasses(path)
    /\ main # "away" => /\ "sidebar-mini" \in root
                        /\ root \cap (LoginPage \cup RegisterPage) = {}

\* While Main is mounted the sidebars are shown as the store has them, for
\* the size the window has now: resizes, toggles and visits to other pages
\* in any order leave no class of an earlier state (Main.tsx:55-75).
SidebarAgrees ==
    main # "away" =>
        root \cap EffectClasses =
            SidebarClasses(screen, collapsed) \cup ControlClasses(control)

\* No option that is off has an effect on the layout; layout-fixed, whose
\* reducer is the other way round, has none while it is on.
OptionClasses == \A o \in Options \cap root : AddsClass(o, o \in on)

Agrees(o) == o \in root <=> AddsClass(o, o \in on)

\* An option whose class is what its state asks for stays so, through reloads,
\* signing in and out and resizing, until a public page replaces the list.
OptionsKept ==
    [][\A o \in Options \ {"layout-fixed"} :
          Agrees(o) => Agrees(o)' \/ Public(path, authed)']_vars

\* Whoever is signed in is signed out in this tab only by the late failure of
\* a profile request whose Main is gone (Main.tsx:36), or by a reload after
\* another tab has removed the token: no page that is shown to somebody who
\* is signed in has a way to sign out.
SignedOutOnlyLate ==
    [][loggedIn /\ ~loggedIn' => stale' < stale \/ ~token]_vars

\* The preloader does not stay, unless the user reloads for ever: the request
\* of a mounted Main is answered one way or the other, and the timer expires.
PreloaderEnds ==
    /\ main = "loading" ~> main # "loading"
    /\ main = "sleeping" ~> main # "sleeping"
=============================================================================
