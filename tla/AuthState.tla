------------------------------ MODULE AuthState ------------------------------
(***************************************************************************)
(* AuthStateManager (src/src/auth/auth_state_manager.cpp): the state TDLib *)
(* last reported, and the callback of an unexpected termination, fired     *)
(* once.  SetState runs on the receiver thread under mutex_; the flag      *)
(* expect_shutdown_ is an atomic that handlers and main write from their   *)
(* own threads.  The callback of the first Ready only asks for a sync,     *)
(* which the timer of the session module may ask for at any time.          *)
(***************************************************************************)

VARIABLES
    state,                \* the last authorization state reported by TDLib
    expectShutdown,       \* terminal states are expected: no callback
    terminationReported   \* on_unexpected_termination_ has been called

authVars == <<state, expectShutdown, terminationReported>>

\* "login" stands for every state between the parameters and Ready.
AuthStates == {"unknown", "login", "ready", "loggingOut", "closing", "closed"}
Terminal == {"loggingOut", "closing", "closed"}

AuthInit ==
    /\ state = "unknown"
    /\ expectShutdown = FALSE
    /\ terminationReported = FALSE

\* setState(s) calls back: main then quits.
Terminates(s) == s \in Terminal /\ ~expectShutdown /\ ~terminationReported

SetState(s) ==
    /\ state' = s
    /\ terminationReported' = (terminationReported \/ Terminates(s))
    /\ UNCHANGED expectShutdown

SetExpect(b) ==
    /\ expectShutdown' = b
    /\ UNCHANGED <<state, terminationReported>>

ExpectShutdown == SetExpect(TRUE)
CancelExpectShutdown == SetExpect(FALSE)

AuthTypeOK ==
    /\ state \in AuthStates
    /\ expectShutdown \in BOOLEAN
    /\ terminationReported \in BOOLEAN
==============================================================================
