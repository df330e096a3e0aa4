--------------------------- MODULE WebShellProofs ---------------------------
(***************************************************************************)
(* Proofs about WebShell, for any set of options of the control sidebar    *)
(* and any number of requests that an unmounted Main has left.             *)
(***************************************************************************)
EXTENDS WebShell, TLAPS

\* What PublicRoute has rendered fits the address and the store.
SessionInv ==
    /\ token \in BOOLEAN /\ loggedIn \in BOOLEAN /\ authed \in BOOLEAN
    /\ path \in Session!Paths /\ signIn \subseteq Session!Forms
    /\ main \in {"away", "loading", "sleeping", "loaded"}
    /\ stale \in 0..MaxStale
    /\ loggedIn => authed
    /\ main # "away" <=> path = "/" /\ ~authed

SidebarsInv ==
    /\ screen \in Sizes /\ collapsed \in BOOLEAN /\ control \in BOOLEAN
    /\ on \subseteq Options

AllClasses ==
    LoginPage \cup RegisterPage \cup EffectClasses \cup {"sidebar-mini"} \cup Options

LayoutInv ==
    /\ root \subseteq AllClasses
    /\ PageDressed /\ SidebarAgrees /\ OptionClasses

IInv == SessionInv /\ SidebarsInv /\ LayoutInv

-----------------------------------------------------------------------------
(* The class list.                                                         *)

\* No writer of one kind of class touches those of another.
LEMMA Disjoint ==
    /\ Options \cap (LoginPage \cup RegisterPage \cup EffectClasses
                        \cup {"sidebar-mini"}) = {}
    /\ EffectClasses \cap (LoginPage \cup RegisterPage) = {}
    /\ "sidebar-mini" \notin LoginPage \cup RegisterPage \cup EffectClasses
  BY OptionsAssumption DEF AllOptions, LoginPage, RegisterPage, EffectClasses

LEMMA PageType ==
    ASSUME NEW page \in Session!Paths, page # "/"
    PROVE  PageClasses(page) \in {LoginPage, RegisterPage}
  BY DEF PageClasses

LEMMA EffectType ==
    ASSUME NEW size \in Sizes, NEW folded \in BOOLEAN, NEW ctl \in BOOLEAN
    PROVE  SidebarClasses(size, folded) \cup ControlClasses(ctl) \subseteq EffectClasses
  <1>1. SidebarClasses(size, folded) \subseteq EffectClasses
    BY DEF Sizes, SidebarClasses, EffectClasses
  <1>2. ControlClasses(ctl) \subseteq EffectClasses
    BY DEF ControlClasses, EffectClasses
  <1> QED
    BY <1>1, <1>2

\* What the effects of Main leave of a class list.
LEMMA EffectsShow ==
    ASSUME NEW list, NEW size \in Sizes, NEW folded \in BOOLEAN, NEW ctl \in BOOLEAN
    PROVE  LET new == Effects(list, size, folded, ctl)
           IN  /\ new \cap EffectClasses =
                      SidebarClasses(size, folded) \cup ControlClasses(ctl)
               /\ new \ EffectClasses = list \ EffectClasses
  BY EffectType DEF Effects

LEMMA MountedShow ==
    ASSUME NEW list, NEW size \in Sizes, NEW folded \in BOOLEAN, NEW ctl \in BOOLEAN
    PROVE  LET new == Mounted(list, size, folded, ctl)
           IN  /\ new \cap EffectClasses =
                      SidebarClasses(size, folded) \cup ControlClasses(ctl)
               /\ "sidebar-mini" \in new
               /\ new \cap (LoginPage \cup RegisterPage) = {}
               /\ new \subseteq list \cup EffectClasses \cup {"sidebar-mini"}
               /\ new \cap Options = list \cap Options
  <1> DEFINE bare == (list \ (LoginPage \cup RegisterPage)) \cup {"sidebar-mini"}
             new  == Mounted(list, size, folded, ctl)
  <1>1. /\ new \cap EffectClasses =
               SidebarClasses(size, folded) \cup ControlClasses(ctl)
        /\ new \ EffectClasses = bare \ EffectClasses
    BY EffectsShow DEF Mounted
  <1>2. "sidebar-mini" \in bare /\ bare \cap Options = list \cap Options
    BY Disjoint
  <1> HIDE DEF new
  <1>3. "sidebar-mini" \in new
    BY <1>1, <1>2, Disjoint
  <1>4. new \cap (LoginPage \cup RegisterPage) = {}
    BY <1>1, Disjoint
  <1>5. new \subseteq list \cup EffectClasses \cup {"sidebar-mini"}
    BY <1>1
  <1>6. new \cap Options = list \cap Options
    BY <1>1, <1>2, Disjoint
  <1> QED
    BY <1>1, <1>3, <1>4, <1>5, <1>6 DEF new

-----------------------------------------------------------------------------
(* A rendering.                                                            *)

\* The options that have an effect are those before, unless a page replaces
\* the class list.
LEMMA RenderedOptions ==
    ASSUME SessionInv', SidebarsInv',
           NEW list, root \ list \subseteq LoginPage \cup RegisterPage, list \subseteq root,
           Rendered(list), ~Public(path, authed)'
    PROVE  root' \cap Options = root \cap Options
  <1>1. list \cap Options = root \cap Options
    BY Disjoint
  <1>2. CASE main = "away" /\ main' # "away"
    <2>1. root' = Mounted(list, screen', collapsed', control')
      BY <1>2 DEF Rendered, Public
    <2> QED
      BY <1>1, <2>1, MountedShow DEF SidebarsInv
  <1>3. CASE main # "away" /\ main' = "away"
    <2>1. root' = list \ {"sidebar-mini"}
      BY <1>3 DEF Rendered, Public
    <2> QED
      BY <1>1, <2>1, Disjoint
  <1>4. CASE ~(main = "away" /\ main' # "away") /\ ~(main # "away" /\ main' = "away")
    <2>1. root' = IF main' # "away" /\ sidebars' # sidebars
                  THEN Effects(list, screen', collapsed', control') ELSE list
      BY <1>4 DEF Rendered, Public
    <2>2. Effects(list, screen', collapsed', control') \ EffectClasses =
              list \ EffectClasses
      BY EffectsShow DEF SidebarsInv
    <2>3. Effects(list, screen', collapsed', control') \cap Options = list \cap Options
      BY <2>2, Disjoint
    <2> QED
      BY <1>1, <2>1, <2>3
  <1> QED
    BY <1>2, <1>3, <1>4

LEMMA RenderedLayout ==
    ASSUME SessionInv, SidebarsInv, LayoutInv, SessionInv', SidebarsInv',
           NEW list, root \ list \subseteq LoginPage \cup RegisterPage, list \subseteq root,
           Rendered(list), UNCHANGED on
    PROVE  LayoutInv'
  <1>1. CASE Public(path, authed)'
    <2>1. root' = PageClasses(path') /\ main' = "away"
      BY <1>1 DEF Rendered, Public, SessionInv
    <2>2. root' \in {LoginPage, RegisterPage}
      BY <1>1, <2>1, PageType DEF Public, SessionInv
    <2>3. OptionClasses'
      BY <2>2, Disjoint DEF OptionClasses
    <2> QED
      BY <1>1, <2>1, <2>2, <2>3 DEF LayoutInv, PageDressed, SidebarAgrees, AllClasses
  <1>2. CASE ~Public(path, authed)'
    <2>1. root' \cap Options = root \cap Options
      BY <1>2, RenderedOptions
    <2>2. OptionClasses'
      BY <2>1 DEF OptionClasses, LayoutInv
    <2>3. CASE main = "away" /\ main' # "away"
      <3>1. root' = Mounted(list, screen', collapsed', control')
        BY <1>2, <2>3 DEF Rendered, Public
      <3> QED
        BY <1>2, <2>2, <2>3, <3>1, MountedShow
        DEF LayoutInv, SidebarsInv, PageDressed, SidebarAgrees, AllClasses
    <2>4. CASE main # "away" /\ main' = "away"
      <3>1. root' = list \ {"sidebar-mini"}
        BY <1>2, <2>4 DEF Rendered, Public
      <3> QED
        BY <1>2, <2>2, <2>4, <3>1 DEF LayoutInv, PageDressed, SidebarAgrees, AllClasses
    <2>5. CASE main = "away" /\ main' = "away"
      <3>1. root' = list
        BY <1>2, <2>5 DEF Rendered, Public
      <3> QED
        BY <1>2, <2>2, <2>5, <3>1 DEF LayoutInv, PageDressed, SidebarAgrees, AllClasses
    <2>6. CASE main # "away" /\ main' # "away"
      <3>1. root' = IF sidebars' # sidebars
                    THEN Effects(list, screen', collapsed', control') ELSE list
        BY <1>2, <2>6 DEF Rendered, Public
      <3>2. /\ "sidebar-mini" \in list /\ list \cap (LoginPage \cup RegisterPage) = {}
            /\ list \cap EffectClasses = root \cap EffectClasses
            /\ list \subseteq AllClasses
        BY <2>6, Disjoint DEF LayoutInv, PageDressed
      <3>3. CASE sidebars' = sidebars
        BY <1>2, <2>2, <2>6, <3>1, <3>2, <3>3
        DEF LayoutInv, PageDressed, SidebarAgrees, sidebars
      <3>4. CASE sidebars' # sidebars
        <4> DEFINE new == Effects(list, screen', collapsed', control')
        <4>1. /\ new \cap EffectClasses =
                     SidebarClasses(screen', collapsed') \cup ControlClasses(control')
              /\ new \ EffectClasses = list \ EffectClasses
          BY EffectsShow DEF SidebarsInv
        <4> HIDE DEF new
        <4>2. root' = new
          BY <3>1, <3>4 DEF new
        <4>3. /\ "sidebar-mini" \in new /\ new \cap (LoginPage \cup RegisterPage) = {}
              /\ new \subseteq AllClasses
          BY <3>2, <4>1, Disjoint DEF AllClasses
        <4> QED
          BY <1>2, <2>2, <2>6, <4>1, <4>2, <4>3
          DEF LayoutInv, PageDressed, SidebarAgrees
      <3> QED
        BY <3>3, <3>4
    <2> QED
      BY <2>3, <2>4, <2>5, <2>6
  <1> QED
    BY <1>1, <1>2

\* A rendering of the same kind of page with nothing else changed keeps the
\* list.
LEMMA SilentLayout ==
    ASSUME LayoutInv, UNCHANGED <<sidebars, on, root>>,
           UNCHANGED path, UNCHANGED authed, main' = "away" <=> main = "away"
    PROVE  LayoutInv'
  BY DEF LayoutInv, PageDressed, SidebarAgrees, OptionClasses, Public, sidebars

-----------------------------------------------------------------------------
(* The session.                                                            *)

LEMMA RenderSession ==
    ASSUME SessionInv, NEW to \in Session!Paths, NEW tok \in BOOLEAN, NEW logged \in BOOLEAN,
           Session!Render(to, tok, logged), signIn' \subseteq Session!Forms
    PROVE  SessionInv'
  <1>1. stale' \in 0..MaxStale
    BY StaleAssumption DEF SessionInv, Session!Render
  <1> QED
    BY <1>1 DEF SessionInv, Session!Render

LEMMA ReloadSession ==
    ASSUME SessionInv, NEW to \in Session!Paths, Session!Reload(to)
    PROVE  SessionInv'
  BY StaleAssumption DEF SessionInv, Session!Reload, Session!MainAt, Session!Forms

LEMMA FormSession ==
    ASSUME SessionInv, NEW form \in Session!Forms,
           Session!SignIn(form) \/ Session!SignInFails(form)
    PROVE  SessionInv' /\ UNCHANGED <<token, loggedIn, path, authed, main, stale>>
  BY DEF SessionInv, Session!SignIn, Session!SignInFails

LEMMA LateFailureSession ==
    ASSUME SessionInv, Session!LateFailure
    PROVE  SessionInv'
  <1>1. stale' \in 0..MaxStale
    BY StaleAssumption DEF SessionInv, Session!LateFailure
  <1> QED
    BY <1>1 DEF SessionInv, Session!LateFailure, Session!LogoutUser

\* The steps that render nothing leave the page, its address and who is in.
LEMMA BackgroundSession ==
    ASSUME SessionInv,
           \/ Session!Elsewhere \/ Session!Answer \/ Session!LateProfile \/ Session!Wake
    PROVE  /\ SessionInv' /\ UNCHANGED path /\ UNCHANGED authed
           /\ main' = "away" <=> main = "away"
           /\ loggedIn => UNCHANGED loggedIn
  <1>1. stale' \in 0..MaxStale
    BY StaleAssumption DEF SessionInv, Session!Elsewhere, Session!Answer,
       Session!ProfileLoaded, Session!ProfileFails, Session!LateProfile, Session!Wake
  <1>2. CASE Session!Elsewhere
    BY <1>1, <1>2 DEF SessionInv, Session!Elsewhere
  <1>3. CASE Session!ProfileLoaded
    BY <1>1, <1>3 DEF SessionInv, Session!ProfileLoaded
  <1>4. CASE Session!ProfileFails
    BY <1>1, <1>4 DEF SessionInv, Session!ProfileFails, Session!LogoutUser
  <1>5. CASE Session!LateProfile
    BY <1>1, <1>5 DEF SessionInv, Session!LateProfile
  <1>6. CASE Session!Wake
    BY <1>1, <1>6 DEF SessionInv, Session!Wake
  <1> QED
    BY <1>2, <1>3, <1>4, <1>5, <1>6 DEF Session!Answer

-----------------------------------------------------------------------------
(* The inductive invariant.                                                *)

LEMMA LoadedLayout ==
    ASSUME NEW at \in Session!Paths, NEW auth \in BOOLEAN, NEW size \in Sizes
    PROVE  LET new == Loaded(at, auth, size)
           IN  /\ new \subseteq AllClasses
               /\ Public(at, auth) => new = PageClasses(at)
               /\ at = "/" /\ ~auth =>
                      /\ "sidebar-mini" \in new
                      /\ new \cap (LoginPage \cup RegisterPage) = {}
                      /\ new \cap EffectClasses =
                             SidebarClasses(size, FALSE) \cup ControlClasses(TRUE)
               /\ \A o \in Options \cap new : AddsClass(o, o \in Initially)
  <1>1. CASE auth
    BY <1>1 DEF Loaded, Public, Initially, AllClasses, AddsClass
  <1>2. CASE Public(at, auth)
    <2>1. Loaded(at, auth, size) = PageClasses(at)
      BY <1>2 DEF Loaded, Public
    <2>2. PageClasses(at) \in {LoginPage, RegisterPage}
      BY <1>2, PageType DEF Public
    <2>3. Options \cap PageClasses(at) = {}
      BY <2>2, Disjoint
    <2> QED
      BY <1>2, <2>1, <2>2, <2>3 DEF Public, AllClasses
  <1>3. CASE at = "/" /\ ~auth
    <2> DEFINE new == Mounted(Initially, size, FALSE, TRUE)
    <2>1. Loaded(at, auth, size) = new
      BY <1>3 DEF Loaded, Public
    <2>2. /\ new \cap EffectClasses = SidebarClasses(size, FALSE) \cup ControlClasses(TRUE)
          /\ "sidebar-mini" \in new
          /\ new \cap (LoginPage \cup RegisterPage) = {}
          /\ new \subseteq Initially \cup EffectClasses \cup {"sidebar-mini"}
          /\ new \cap Options = Initially \cap Options
      BY MountedShow
    <2> HIDE DEF new
    <2>3. \A o \in Options \cap new : AddsClass(o, o \in Initially)
      BY <2>2 DEF AddsClass, Initially
    <2> QED
      BY <1>3, <2>1, <2>2, <2>3 DEF AllClasses, Initially, Public
  <1> QED
    BY <1>1, <1>2, <1>3 DEF Public

LEMMA InitIInv == Init => IInv
  <1> SUFFICES ASSUME Init PROVE IInv
    OBVIOUS
  <1>1. SessionInv
    BY StaleAssumption DEF Init, Session!Init, Session!MainAt, SessionInv, Session!Forms
  <1>2. SidebarsInv
    BY DEF Init, SidebarsInv, Initially
  <1>3. LayoutInv
    BY <1>1, LoadedLayout
    DEF Init, SessionInv, LayoutInv, PageDressed, SidebarAgrees, OptionClasses
  <1> QED
    BY <1>1, <1>2, <1>3 DEF IInv

LEMMA ReloadIInv ==
    ASSUME IInv, NEW to \in Session!Paths, Reload(to)
    PROVE  IInv'
  <1>1. SessionInv'
    BY ReloadSession DEF IInv, Reload
  <1>2. SidebarsInv'
    BY DEF IInv, SidebarsInv, Reload, Initially
  <1>3. path' = to /\ root' = Loaded(to, authed', screen')
    BY DEF Reload, Session!Reload
  <1>4. LayoutInv'
    BY <1>1, <1>2, <1>3, LoadedLayout
    DEF Reload, SessionInv, SidebarsInv, LayoutInv, PageDressed, SidebarAgrees, OptionClasses
  <1> QED
    BY <1>1, <1>2, <1>4 DEF IInv

\* A step that renders: of the session, of the size or of a sidebar.
LEMMA ShowsIInv ==
    ASSUME IInv, SessionInv', SidebarsInv', UNCHANGED on,
           NEW list, root \ list \subseteq LoginPage \cup RegisterPage, list \subseteq root,
           Rendered(list)
    PROVE  IInv'
  BY RenderedLayout DEF IInv

\* A page has the class list to itself already when it is rendered again.
LEMMA FillInIdle ==
    ASSUME IInv, NEW page, FillIn(page)
    PROVE  UNCHANGED <<session, sidebars, on, root>>
  BY DEF IInv, LayoutInv, PageDressed, FillIn

\* Every step of Pages but a reload renders the list, or the list without the
\* classes of a form.
LEMMA PagesIInv ==
    ASSUME IInv, Pages
    PROVE  IInv'
  <1> USE DEF IInv
  <1>0. ASSUME SessionInv', UNCHANGED <<sidebars, on>>, Rendered(root)
        PROVE  IInv'
    BY <1>0, ShowsIInv DEF SidebarsInv, sidebars
  <1>1. ASSUME NEW to \in Session!Paths, Reload(to)
        PROVE  IInv'
    BY <1>1, ReloadIInv
  <1>2. ASSUME NEW to \in Session!Paths, Shows(Session!Follow(to))
        PROVE  IInv'
    <2>1. SessionInv'
      BY <1>2, RenderSession DEF Shows, Session!Follow, SessionInv
    <2> QED
      BY <1>0, <1>2, <2>1 DEF Shows
  <1>3. ASSUME NEW form \in Session!Forms, SignedIn(form)
        PROVE  IInv'
    <2>1. SessionInv'
      <3>1. "/" \in Session!Paths
        BY DEF Session!Paths
      <3>2. signIn' \subseteq Session!Forms
        BY <1>3 DEF SignedIn, Session!SignedIn, SessionInv
      <3> QED
        BY <1>3, <3>1, <3>2, RenderSession DEF SignedIn, Session!SignedIn
    <2>2. PageClasses(form) \in {LoginPage, RegisterPage}
      BY PageType DEF Session!Paths, Session!Forms
    <2> QED
      BY <1>3, <2>1, <2>2, ShowsIInv DEF SignedIn, SidebarsInv, sidebars
  <1>4. ASSUME NEW form \in Session!Forms, SignInFails(form)
        PROVE  IInv'
    <2>1. SessionInv' /\ UNCHANGED <<path, authed, main>>
      BY <1>4, FormSession DEF SignInFails, Shows, Silent
    <2>2. CASE Shows(Session!SignInFails(form))
      BY <1>0, <2>1, <2>2 DEF Shows
    <2>3. CASE Silent(Session!SignInFails(form))
      BY <2>1, <2>3, SilentLayout DEF Silent, SidebarsInv, sidebars
    <2> QED
      BY <1>4, <2>2, <2>3 DEF SignInFails
  <1>5. CASE Shows(Session!LogOut)
    <2>1. SessionInv'
      <3>1. "/login" \in Session!Paths
        BY DEF Session!Paths, Session!Forms
      <3> QED
        BY <1>5, <3>1, RenderSession DEF Shows, Session!LogOut, SessionInv
    <2> QED
      BY <1>0, <1>5, <2>1 DEF Shows
  <1>6. CASE Shows(Session!Login) \/ Shows(Session!Register)
    <2>1. SessionInv'
      BY <1>6, FormSession DEF Shows, Session!Login, Session!Register, Session!Forms
    <2> QED
      BY <1>0, <1>6, <2>1 DEF Shows
  <1>7. CASE Shows(Session!Redirect)
    <2>1. SessionInv'
      <3>1. "/" \in Session!Paths
        BY DEF Session!Paths
      <3> QED
        BY <1>7, <3>1, RenderSession DEF Shows, Session!Redirect, SessionInv
    <2> QED
      BY <1>0, <1>7, <2>1 DEF Shows
  <1>8. CASE LateFailure
    <2>1. SessionInv'
      BY <1>8, LateFailureSession DEF LateFailure, Shows, Silent
    <2>2. CASE loggedIn
      BY <1>0, <1>8, <2>1, <2>2 DEF LateFailure, Shows
    <2>3. CASE ~loggedIn
      <3>1. Silent(Session!LateFailure)
        BY <1>8, <2>3 DEF LateFailure
      <3>2. UNCHANGED <<path, authed, main>>
        BY <2>3, <3>1 DEF Silent, Session!LateFailure, Session!LogoutUser, SessionInv
      <3> QED
        BY <2>1, <3>1, <3>2, SilentLayout DEF Silent, SidebarsInv, sidebars
    <2> QED
      BY <2>2, <2>3
  <1>9. ASSUME NEW size \in Sizes, Resize(size)
        PROVE  IInv'
    <2>1. SessionInv'
      BY <1>9, RenderSession DEF Resize, Session!Rerender, SessionInv
    <2> QED
      BY <1>9, <2>1, ShowsIInv DEF Resize, SidebarsInv
  <1>10. ASSUME NEW page, FillIn(page)
         PROVE  IInv'
    <2>1. UNCHANGED <<session, sidebars, on, root>>
      BY <1>10, FillInIdle
    <2>2. SessionInv' /\ UNCHANGED <<path, authed, main>>
      BY <2>1 DEF SessionInv, session
    <2> QED
      BY <2>1, <2>2, SilentLayout DEF SidebarsInv, sidebars
  <1> QED
    BY <1>1, <1>2, <1>3, <1>4, <1>5, <1>6, <1>7, <1>8, <1>9, <1>10
    DEF Pages, FillForm, ForgotPassword, RecoverPassword

LEMMA BackgroundIInv ==
    ASSUME IInv, Background
    PROVE  IInv'
  <1>1. /\ SessionInv' /\ UNCHANGED path /\ UNCHANGED authed
        /\ main' = "away" <=> main = "away"
    BY BackgroundSession DEF IInv, Background, Silent
  <1>2. UNCHANGED <<sidebars, on, root>>
    BY DEF Background, Silent
  <1> QED
    BY <1>1, <1>2, SilentLayout DEF IInv, SidebarsInv, sidebars

LEMMA ToggleIInv ==
    ASSUME IInv, NEW o \in Options, HandleChange(o)
    PROVE  IInv'
  <1>1. SessionInv' /\ SidebarsInv'
    BY DEF IInv, SessionInv, SidebarsInv, HandleChange, Toggle, session, sidebars
  <1>2. \A p \in Options \ {o} : (p \in on' <=> p \in on) /\ (p \in root' <=> p \in root)
    BY DEF HandleChange, Toggle
  <1>3. o \in root' <=> AddsClass(o, o \in on')
    BY DEF HandleChange, Toggle
  <1>4. OptionClasses'
    <2> SUFFICES ASSUME NEW p \in Options, p \in root'
                 PROVE  AddsClass(p, p \in on')
      BY DEF OptionClasses
    <2>1. CASE p = o
      BY <1>3, <2>1
    <2>2. CASE p # o
      BY <1>2, <2>2 DEF IInv, LayoutInv, OptionClasses, AddsClass
    <2> QED
      BY <2>1, <2>2
  <1>5. root' \ Options = root \ Options /\ root' \subseteq root \cup Options
    BY DEF HandleChange, Toggle
  <1>6. main # "away" /\ UNCHANGED <<path, authed, main, screen, collapsed, control>>
    BY DEF HandleChange, AppShown, Toggle, session, sidebars
  <1>7. PageDressed' /\ SidebarAgrees'
    <2>1. ~Public(path, authed)'
      BY <1>6 DEF IInv, SessionInv, Public
    <2>2. /\ "sidebar-mini" \in root' /\ root' \cap (LoginPage \cup RegisterPage) = {}
          /\ root' \cap EffectClasses = root \cap EffectClasses
      BY <1>5, <1>6, Disjoint DEF IInv, LayoutInv, PageDressed
    <2> QED
      BY <1>6, <2>1, <2>2 DEF IInv, LayoutInv, PageDressed, SidebarAgrees
  <1>8. root' \subseteq AllClasses
    BY <1>5 DEF IInv, LayoutInv, AllClasses
  <1> QED
    BY <1>1, <1>4, <1>7, <1>8 DEF IInv, LayoutInv

LEMMA SidebarIInv ==
    ASSUME IInv, ToggleSidebarMenu \/ ToggleControlSidebar
    PROVE  IInv'
  <1>1. UNCHANGED <<session, screen, on>> /\ Rendered(root)
    BY DEF ToggleSidebarMenu, ToggleControlSidebar
  <1>2. SessionInv'
    BY <1>1 DEF IInv, SessionInv, session
  <1>3. collapsed' \in BOOLEAN /\ control' \in BOOLEAN
    BY DEF IInv, SidebarsInv, ToggleSidebarMenu, ToggleControlSidebar
  <1>4. SidebarsInv'
    BY <1>1, <1>3 DEF IInv, SidebarsInv
  <1> QED
    BY <1>1, <1>2, <1>4, ShowsIInv

LEMMA NextIInv == IInv /\ [Next]_vars => IInv'
  <1>1. ASSUME IInv, UNCHANGED vars
        PROVE  IInv'
    BY <1>1, SilentLayout DEF IInv, SessionInv, SidebarsInv, vars, session, sidebars
  <1> QED
    BY <1>1, PagesIInv, BackgroundIInv, ToggleIInv, SidebarIInv DEF Next, ControlSidebar

\* The page fits the session, and the class list the page and the store.
THEOREM Invariance == Spec => []IInv
  BY InitIInv, NextIInv, PTL DEF Spec

\* Type correctness of the session, the ui slice and the class list.
THEOREM TypeCorrect == Spec => []TypeOK
  <1>1. IInv => TypeOK
    BY DEF IInv, SessionInv, SidebarsInv, LayoutInv, AllClasses, TypeOK
  <1> QED
    BY <1>1, Invariance, PTL

\* A public page has the class list to itself, and Main has none of its
\* classes, for every set of options (setWindowClass in the pages, Main.tsx:42).
THEOREM PageDressedAlways == Spec => []PageDressed
  <1>1. IInv => PageDressed
    BY DEF IInv, LayoutInv
  <1> QED
    BY <1>1, Invariance, PTL

\* The sidebars are shown as the store has them (Main.tsx:55-75).
THEOREM SidebarAgreesAlways == Spec => []SidebarAgrees
  <1>1. IInv => SidebarAgrees
    BY DEF IInv, LayoutInv
  <1> QED
    BY <1>1, Invariance, PTL

\* No option that is off has an effect on the layout (ui.ts:54-108).
THEOREM OptionClassesAlways == Spec => []OptionClasses
  <1>1. IInv => OptionClasses
    BY DEF IInv, LayoutInv
  <1> QED
    BY <1>1, Invariance, PTL

-----------------------------------------------------------------------------
(* What a step may do.                                                     *)

LEMMA OptionsKeptByLoading ==
    ASSUME NEW at \in Session!Paths, NEW auth \in BOOLEAN, NEW size \in Sizes,
           ~Public(at, auth)
    PROVE  Loaded(at, auth, size) \cap Options = Initially
  <1>1. Initially \cap Options = Initially
    BY DEF Initially
  <1>2. Mounted(Initially, size, FALSE, TRUE) \cap Options = Initially \cap Options
    BY MountedShow
  <1> QED
    BY <1>1, <1>2 DEF Loaded

\* A step of Pages but a reload leaves the options alone.
LEMMA OptionsKeptByPages ==
    ASSUME IInv, IInv', Pages, ~Public(path, authed)',
           \A to \in Session!Paths : ~Reload(to)
    PROVE  UNCHANGED on /\ root' \cap Options = root \cap Options
  <1> USE DEF IInv
  <1>1. ASSUME UNCHANGED on, Rendered(root)
        PROVE  root' \cap Options = root \cap Options
    BY <1>1, RenderedOptions
  <1>2. ASSUME NEW form \in Session!Forms, SignedIn(form)
        PROVE  UNCHANGED on /\ root' \cap Options = root \cap Options
    <2>1. PageClasses(form) \in {LoginPage, RegisterPage}
      BY PageType DEF Session!Paths, Session!Forms
    <2> QED
      BY <1>2, <2>1, RenderedOptions DEF SignedIn
  <1>3. ASSUME NEW page, FillIn(page)
        PROVE  UNCHANGED on /\ root' \cap Options = root \cap Options
    BY <1>3, FillInIdle
  <1> QED
    BY <1>1, <1>2, <1>3 DEF Pages, Shows, Silent, SignInFails, LateFailure, Resize,
       FillForm, ForgotPassword, RecoverPassword

\* An option that has its effect keeps it until a public page is shown.
THEOREM OptionsKeptAlways == Spec => OptionsKept
  <1>1. IInv /\ IInv' /\ [Next]_vars =>
            [\A o \in Options \ {"layout-fixed"} :
                Agrees(o) => Agrees(o)' \/ Public(path, authed)']_vars
    <2> SUFFICES ASSUME IInv, IInv', Next, NEW o \in Options \ {"layout-fixed"},
                        Agrees(o), ~Public(path, authed)'
                 PROVE  Agrees(o)'
      OBVIOUS
    <2>1. ASSUME NEW to \in Session!Paths, Reload(to)
          PROVE  Agrees(o)'
      <3>1. /\ root' = Loaded(to, authed', screen') /\ on' = Initially /\ path' = to
        BY <2>1 DEF Reload, Session!Reload
      <3>2. root' \cap Options = Initially
        BY <3>1, OptionsKeptByLoading DEF IInv, SessionInv, SidebarsInv
      <3> QED
        BY <3>1, <3>2 DEF Agrees, AddsClass
    <2>2. CASE Pages /\ \A to \in Session!Paths : ~Reload(to)
      BY <2>2, OptionsKeptByPages DEF Agrees, AddsClass
    <2>3. CASE Background
      BY <2>3 DEF Background, Silent, Agrees, AddsClass
    <2>4. CASE ToggleSidebarMenu \/ ToggleControlSidebar
      <3>1. UNCHANGED on /\ Rendered(root)
        BY <2>4 DEF ToggleSidebarMenu, ToggleControlSidebar
      <3>2. root' \cap Options = root \cap Options
        BY <3>1, RenderedOptions DEF IInv
      <3> QED
        BY <3>1, <3>2 DEF Agrees, AddsClass
    <2>5. ASSUME NEW p \in Options, HandleChange(p)
          PROVE  Agrees(o)'
      BY <2>5 DEF HandleChange, Toggle, Agrees, AddsClass
    <2> QED
      BY <2>1, <2>2, <2>3, <2>4, <2>5 DEF Next, ControlSidebar
  <1> QED
    BY <1>1, Invariance, PTL DEF Spec, OptionsKept

\* Who is signed in is signed out only by a late failure or after another tab:
\* Main, the one page that can sign out, is not mounted (PublicRoute.tsx:9).
THEOREM SignedOutOnlyLateAlways == Spec => SignedOutOnlyLate
  <1>1. IInv /\ [Next]_vars =>
            [loggedIn /\ ~loggedIn' => stale' < stale \/ ~token]_vars
    <2> SUFFICES ASSUME IInv, Next, loggedIn, ~loggedIn', token
                 PROVE  stale' < stale
      BY DEF IInv, SessionInv
    <2>1. ~Session!LogOut
      BY DEF IInv, SessionInv, Session!LogOut
    <2>2. CASE Pages
      <3>1. Session!LateFailure
        BY <2>1, <2>2 DEF Pages, Shows, Silent, Reload, SignedIn, SignInFails, LateFailure,
           Resize, Session!Reload, Session!Follow, Session!Rerender, Session!Render,
           Session!SignedIn, Session!SignInFails, Session!Login, Session!Register,
           Session!SignIn, Session!Redirect, FillForm, ForgotPassword, RecoverPassword,
           FillIn, session
      <3> QED
        BY <3>1, StaleAssumption DEF Session!LateFailure, IInv, SessionInv
    <2>3. CASE Background
      BY <2>3, BackgroundSession DEF Background, Silent, IInv
    <2>4. CASE ControlSidebar \/ ToggleControlSidebar
      BY <2>4 DEF ControlSidebar, ToggleControlSidebar, ToggleSidebarMenu,
         HandleChange, Toggle, session
    <2> QED
      BY <2>2, <2>3, <2>4 DEF Next
  <1> QED
    BY <1>1, Invariance, PTL DEF Spec, SignedOutOnlyLate

\* Whoever is signed in sees neither Main nor a public page, however they came to
\* be: "/" and every page of PublicRoute send them to "/" (App.tsx:42-54,
\* PublicRoute.tsx:9).  That SignedInSeesMain fails is not a matter of the run's
\* bounds, and no button of Main is ever seen by somebody who is signed in.
LockedOut == loggedIn => main = "away" /\ ~Public(path, authed)

THEOREM LockedOutAlways == Spec => []LockedOut
  <1>1. IInv => LockedOut
    BY DEF IInv, SessionInv, LockedOut, Public
  <1> QED
    BY <1>1, Invariance, PTL
=============================================================================
