-------------------------- MODULE LoopbackSessions --------------------------
(***************************************************************************)
(* The browser sessions of the two loopback surfaces, the v3 bridge and    *)
(* the workspace tasks: a bounded table in memory, from which a session    *)
(* goes when it was idle too long or has existed too long, and which a     *)
(* restart empties.  Time is kept as the age and the idle time of each     *)
(* session, counted no further than past their limits.                     *)
(***************************************************************************)
EXTENDS Integers, FiniteSets

CONSTANTS Tabs,            \* browser tabs
          Cookies,         \* names for random session tokens
          MaxSessions,     \* 512 for the bridge, 128 for the workspace
          IdleLimit,       \* 15 minutes, in ticks
          AbsoluteLimit    \* 60 minutes, in ticks

NoCookie == "no cookie"

ASSUME SessionsAssumption ==
    /\ {MaxSessions, IdleLimit, AbsoluteLimit} \subseteq Nat \ {0}
    /\ IdleLimit <= AbsoluteLimit
    /\ NoCookie \notin Cookies
    /\ Cardinality(Cookies) > MaxSessions + Cardinality(Tabs)

VARIABLES sessions,   \* the table: a token, its age and its idle time
          cookie      \* per tab the token and CSRF value it was given last

sessionVars == <<sessions, cookie>>

Sessions == [token : Cookies, age : 0..AbsoluteLimit + 1, idle : 0..IdleLimit + 1]

SessionInit == sessions = {} /\ cookie = [t \in Tabs |-> NoCookie]

\* The test of bootstrap, _purge_expired_sessions and verify_session.
Expired(s) == s.age > AbsoluteLimit \/ s.idle > IdleLimit

Live == {s \in sessions : ~Expired(s)}

\* bootstrap: expired sessions go, then a new one is made if there is room.
Bootstrap(t) ==
    IF Cardinality(Live) < MaxSessions
    THEN LET known == {s.token : s \in sessions} \cup {cookie[u] : u \in Tabs}
             token == CHOOSE c \in Cookies : c \notin known
         IN  /\ sessions' = Live \cup {[token |-> token, age |-> 0, idle |-> 0]}
             /\ cookie' = [cookie EXCEPT ![t] = token]
    ELSE sessions' = Live /\ UNCHANGED cookie

TouchBoth(s) == [s EXCEPT !.idle = 0, !.age = 0]

\* A use resets the idle time only.
Touch(s) == [s EXCEPT !.idle = 0]

\* The workspace checks the CSRF value of every request, the bridge that of
\* mutations.
CsrfChecked(surface, mutation) == surface = "workspace" \/ mutation

\* verify_session: an expired session is removed and refused; a wrong CSRF value
\* leaves it as it is; otherwise it was used now.
Verify(t, surface, mutation, csrfMatches) ==
    LET mine == {s \in sessions : s.token = cookie[t]}
        accepted == CsrfChecked(surface, mutation) => csrfMatches
    IN  /\ sessions' = (sessions \ mine) \cup
               {IF accepted THEN Touch(s) ELSE s : s \in mine \cap Live}
        /\ UNCHANGED cookie

\* Time passes for every session alike.
Tick ==
    /\ sessions' = {[s EXCEPT !.age = IF @ > AbsoluteLimit THEN @ ELSE @ + 1,
                              !.idle = IF @ > IdleLimit THEN @ ELSE @ + 1] : s \in sessions}
    /\ UNCHANGED cookie

\* The process is restarted; the tabs keep their cookies.
Restart == sessions' = {} /\ UNCHANGED cookie

SessionNext ==
    \/ \E t \in Tabs :
           \/ Bootstrap(t)
           \/ \E surface \in {"bridge", "workspace"}, mutation, csrfMatches \in BOOLEAN :
                  Verify(t, surface, mutation, csrfMatches)
    \/ Tick
    \/ Restart

----------------------------------------------------------------------------
(* Properties.                                                             *)

\* The table never holds more than its limit, one session per token, and a full
\* table does not stay full: sessions in constant use come to their absolute
\* limit as well, so a tab that asks again is not shut out for good.
TableFreesUp ==
    [](Cardinality(sessions) <= MaxSessions) /\ []<>(Cardinality(Live) < MaxSessions)
=============================================================================
