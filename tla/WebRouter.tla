----------------------------- MODULE WebRouter -----------------------------
(***************************************************************************)
(* A session with the history of the router.  Navigate pushes an entry,    *)
(* also when it leads from an address to the same address; WebSession does *)
(* not see that, because all its variables stay as they are.               *)
(***************************************************************************)
EXTENDS WebSession

VARIABLE entry   \* whether the number of entries pushed by Navigate is odd

routed == <<vars, entry>>

RouterInit == Init /\ entry = FALSE

Push == Redirect /\ entry' = ~entry
Wait == Tab /\ UNCHANGED entry
Act  == User /\ UNCHANGED entry

Next == Push \/ Wait \/ Act

\* The router follows a Navigate, the service answers, the timer expires.
FairSpec ==
    /\ RouterInit /\ [][Next]_routed
    /\ WF_routed(Push)
    /\ WF_routed(Answer /\ UNCHANGED entry) /\ WF_routed(Wake /\ UNCHANGED entry)
    /\ \A form \in Forms :
          WF_routed((SignedIn(form) \/ SignInFails(form)) /\ UNCHANGED entry)

-----------------------------------------------------------------------------
\* Whoever stays signed in and, from some moment on, only waits, in this tab
\* and in others, gets to the application: navigate('/') in Login and
\* Register, and the Navigate of PublicRoute, lead to "/", where App.tsx:55
\* has Main.
SignedInSeesMain ==
    <>[]loggedIn /\ <>[][Push \/ Wait]_routed => <>[](main = "loaded")
=============================================================================
