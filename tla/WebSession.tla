----------------------------- MODULE WebSession -----------------------------
(***************************************************************************)
(* Signing in to the web application: a tab with its Redux store and its   *)
(* router, the token in localStorage, which reloads keep and all tabs      *)
(* share, and the Gatekeeper service, which hands out tokens and profiles. *)
(*                                                                         *)
(* App.tsx wraps every address in PublicRoute, those of Main as well.      *)
(***************************************************************************)
EXTENDS Naturals

CONSTANT MaxStale   \* bound on the requests that an unmounted Main has left

VARIABLES
    token,     \* localStorage holds a token
    loggedIn,  \* state.auth.isLoggedIn
    path,      \* the address: a public page, or "/" for all pages of Main
    authed,    \* isAuthenticated, when PublicRoute was rendered last
    main,      \* Main: "away", or how far fetchProfile of the mounted one is
    stale,     \* requests for the profile by a Main that is unmounted now
    signIn     \* the forms whose request is not answered yet

vars == <<token, loggedIn, path, authed, main, stale, signIn>>

Forms == {"/login", "/register"}

Paths == Forms \cup {"/", "/forgot-password", "/recover-password"}

\* Mutant: PublicRoute looks at the token only.
RenderByToken(to, tok, logged) ==
    /\ path' = to /\ token' = tok /\ loggedIn' = logged
    /\ authed' = tok
    /\ IF to = "/" /\ ~authed'
       THEN main' = (IF main = "away" THEN "loading" ELSE main) /\ UNCHANGED stale
       ELSE /\ main' = "away"
            /\ stale' = stale + (IF main = "loading" THEN 1 ELSE 0)
            /\ stale' <= MaxStale
\* PublicRoute at `to' with a token `tok' and a store `logged': a Navigate for
\* whoever is authenticated, else the page; Main asks for the profile when it
\* is mounted.
Render(to, tok, logged) ==
    /\ path' = to /\ token' = tok /\ loggedIn' = logged
    /\ authed' = (logged \/ tok)
    /\ IF to = "/" /\ ~authed'
       THEN main' = (IF main = "away" THEN "loading" ELSE main) /\ UNCHANGED stale
       ELSE /\ main' = "away"
            /\ stale' = stale + (IF main = "loading" THEN 1 ELSE 0)
            /\ stale' <= MaxStale

MainAt(to, tok) == IF to = "/" /\ ~tok THEN "loading" ELSE "away"

\* The store starts with the token of localStorage.
Init ==
    /\ token \in BOOLEAN /\ path \in Paths
    /\ loggedIn = token /\ authed = token
    /\ main = MainAt(path, token)
    /\ stale = 0 /\ signIn = {}

-----------------------------------------------------------------------------
(* The user.                                                               *)

\* What the page before had asked for is gone.
Reload(to) ==
    /\ path' = to /\ loggedIn' = token /\ authed' = token
    /\ main' = MainAt(to, token)
    /\ stale' = 0 /\ signIn' = {}
    /\ UNCHANGED token

\* A link of the page that is shown, or the browser's history.  Within a
\* route PublicRoute is not rendered again.
Follow(to) ==
    /\ to # path
    /\ Render(to, token, loggedIn)
    /\ UNCHANGED signIn

\* A new size of the window renders App and all below it.
Rerender == Render(path, token, loggedIn) /\ UNCHANGED signIn

\* logOut in the dropdown of the loaded Main: logoutUser, navigate('/login').
LogOut ==
    /\ main = "loaded"
    /\ Render("/login", FALSE, FALSE)
    /\ UNCHANGED signIn

\* The buttons of the form that is shown.
Enabled(form) == path = form /\ ~authed /\ form \notin signIn

\* Login and Register, with a password or one of two providers: a request
\* disables the buttons of the others.  A form that was left and opened again
\* does not know of its request; the model has one of each form at a time.
SignIn(form) ==
    /\ Enabled(form)
    /\ signIn' = signIn \cup {form}
    /\ UNCHANGED <<token, loggedIn, path, authed, main, stale>>

Login    == SignIn("/login")
Register == SignIn("/register")

\* Another tab signs in or out: nothing is rendered here.
Elsewhere ==
    /\ token' = ~token
    /\ UNCHANGED <<loggedIn, path, authed, main, stale, signIn>>

-----------------------------------------------------------------------------
(* The tab.                                                                *)

\* The Navigate that PublicRoute has rendered goes to "/", whose element is
\* PublicRoute, also from "/".
Redirect ==
    /\ authed
    /\ Render("/", token, loggedIn)
    /\ UNCHANGED signIn

\* loginByAuth and the like: the token is stored and loginUser dispatched,
\* navigate('/'); also if the user has left the page.
SignedIn(form) ==
    /\ form \in signIn /\ signIn' = signIn \ {form}
    /\ Render("/", TRUE, TRUE)

SignInFails(form) ==
    /\ form \in signIn /\ signIn' = signIn \ {form}
    /\ UNCHANGED <<token, loggedIn, path, authed, main, stale>>

\* The service has a profile for whoever has a token.  fetchProfile sleeps
\* for a second before the application replaces the preloader.
ProfileLoaded ==
    /\ main = "loading" /\ main' = "sleeping"
    /\ token
    /\ UNCHANGED <<token, loggedIn, path, authed, stale, signIn>>

\* Mutant: an answer that nobody waits for.
LateProfileUnasked ==
    /\ stale' = stale - 1
    /\ token
    /\ UNCHANGED <<token, loggedIn, path, authed, main, signIn>>
LateProfile ==
    /\ stale > 0 /\ stale' = stale - 1
    /\ token
    /\ UNCHANGED <<token, loggedIn, path, authed, main, signIn>>

\* logoutUser removes the token that is there by now; a new isLoggedIn
\* renders PublicRoute.
LogoutUser ==
    /\ token' = FALSE /\ loggedIn' = FALSE
    /\ authed' = IF loggedIn THEN FALSE ELSE authed
    /\ UNCHANGED <<path, signIn>>

\* Mutant: the failure does not set isAppLoaded.
ProfileFailsUnseen ==
    /\ main = "loading"
    /\ LogoutUser
    /\ UNCHANGED <<main, stale>>
ProfileFails ==
    /\ main = "loading" /\ main' = "sleeping"
    /\ LogoutUser
    /\ UNCHANGED stale

LateFailure ==
    /\ stale > 0 /\ stale' = stale - 1
    /\ LogoutUser
    /\ main' = IF authed /\ ~authed' /\ path = "/" THEN "loading" ELSE main

\* setIsAppLoaded(true).
Wake ==
    /\ main = "sleeping" /\ main' = "loaded"
    /\ UNCHANGED <<token, loggedIn, path, authed, stale, signIn>>

Answer == ProfileLoaded \/ ProfileFails

\* What happens to a tab whose user waits, and no other tab acts.
Tab ==
    \/ \E form \in Forms : SignedIn(form) \/ SignInFails(form)
    \/ Answer \/ LateProfile \/ LateFailure \/ Wake

\* The user of this tab, and of others.
User ==
    \/ \E to \in Paths : Reload(to) \/ Follow(to)
    \/ Rerender \/ LogOut \/ Login \/ Register \/ Elsewhere
=============================================================================
