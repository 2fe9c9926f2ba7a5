----------------------------- MODULE AuthWindow -----------------------------
(***************************************************************************)
(* The authenticated window that permits the VPN lockdown exemption        *)
(* (sharingd/src/main.rs): setAuthenticated, its expiry timer, the         *)
(* keep-unlocked challenge thread of each window, keepUnlocked, and the    *)
(* death of a client.                                                      *)
(*                                                                         *)
(* Binder calls and death notices run one at a time on the one binder      *)
(* thread, but each is several steps there, and the timer and challenge    *)
(* threads of every window that was ever opened run beside it.  A sleep    *)
(* ends at any time, but an answer is late by the time the thread that     *)
(* asked wakes up.  The property outlives the process; nothing else does.  *)
(* Writing it may fail: the daemon logs that and never tries again.        *)
(***************************************************************************)
EXTENDS Integers, FiniteSets

CONSTANTS
    Clients,      \* the clients that may register a callback
    Strikes,      \* CHALLENGE_STRIKES
    MaxGen        \* bound: generations handed out by setAuthenticated

ASSUME WindowAssumption ==
    /\ Strikes \in Nat \ {0}
    /\ MaxGen \in Nat

Gens == 1 .. MaxGen + 1

BinderStates == {"idle", "opening", "spawning", "closing", "confirming", "booting"}
TimerStates == {"none", "sleeping", "expired"}
KeepaliveStates == {"none", "start", "check", "reset", "post", "wait", "look", "strike",
                    "shut", "shut_challenge", "shut_exempt"}

VARIABLES
    generation,    \* auth_generation
    exempt,        \* EXEMPT_PROP
    stuck,         \* history: the last clear of it failed, and was logged at error
    challenge,     \* the generation whose nonce is outstanding, 0 for none
    fresh,         \* it is younger than CHALLENGE_DEADLINE
    ok,            \* keepalive_ok
    strikes,       \* keepalive_strikes
    bpc,           \* the binder thread: "idle", or inside a call
    bgen,          \* the generation the running setAuthenticated took, or 0
    timer,         \* the expiry thread of each generation
    ka,            \* the challenge thread of each generation
    listed,        \* the list of callbacks holds one, if only a dead process's
    watched,       \* whom the one DeathRecipient is linked to
    notice         \* a death notice is waiting for the binder thread

binder == <<bpc, bgen>>
asked == <<challenge, fresh>>
verdict == <<ok, strikes>>
people == <<listed, watched, notice>>
property == <<exempt, stuck>>
windowVars == <<generation, property, challenge, fresh, ok, strikes, bpc, bgen, timer, ka,
                listed, watched, notice>>

\* main has cleared the property.
WindowInit ==
    /\ generation = 0
    /\ exempt = FALSE /\ stuck = FALSE
    /\ challenge = 0 /\ fresh = FALSE
    /\ ok = FALSE /\ strikes = 0
    /\ bpc = "idle" /\ bgen = 0
    /\ timer = [g \in Gens |-> "none"]
    /\ ka = [g \in Gens |-> "none"]
    /\ listed = FALSE /\ watched = {} /\ notice = FALSE

-----------------------------------------------------------------------------
\* write_property works, or it does not and the property stays what it was.
set_exempt(on) ==
    \/ exempt' = on /\ stuck' = FALSE
    \/ UNCHANGED exempt /\ stuck' = (stuck \/ (exempt /\ ~on))

(* setAuthenticated *)

AuthBegin(open) ==
    /\ bpc = "idle"
    /\ generation < MaxGen
    /\ generation' = generation + 1
    /\ bgen' = generation + 1
    /\ bpc' = IF open THEN "opening" ELSE "closing"
    /\ UNCHANGED <<property, asked, verdict, timer, ka, people>>

AuthOpen ==
    /\ bpc = "opening"
    /\ set_exempt(TRUE)
    /\ bpc' = "spawning"
    /\ UNCHANGED <<generation, asked, verdict, bgen, timer, ka, people>>

\* The challenge thread, then the expiry thread.
AuthSpawn ==
    /\ bpc = "spawning"
    /\ ka' = [ka EXCEPT ![bgen] = "start"]
    /\ timer' = [timer EXCEPT ![bgen] = "sleeping"]
    /\ bpc' = "idle" /\ bgen' = 0
    /\ UNCHANGED <<generation, property, asked, verdict, people>>

AuthClose ==
    /\ bpc = "closing"
    /\ set_exempt(FALSE)
    /\ bpc' = "idle" /\ bgen' = 0
    /\ UNCHANGED <<generation, asked, verdict, timer, ka, people>>

\* The window's time is up: nothing to do if it was superseded.
TimerCheck(g) ==
    /\ timer[g] = "sleeping"
    /\ IF generation = g
       THEN timer' = [timer EXCEPT ![g] = "expired"]
       ELSE timer' = [timer EXCEPT ![g] = "none"]
    /\ UNCHANGED <<generation, property, asked, verdict, binder, ka, people>>

TimerClear(g) ==
    /\ timer[g] = "expired"
    /\ set_exempt(FALSE)
    /\ timer' = [timer EXCEPT ![g] = "none"]
    /\ UNCHANGED <<generation, asked, verdict, binder, ka, people>>

-----------------------------------------------------------------------------
(* The challenge thread of generation g *)

KaGoto(g, l) == ka' = [ka EXCEPT ![g] = l]

KaStart(g) ==
    /\ ka[g] = "start"
    /\ strikes' = 0
    /\ KaGoto(g, "check")
    /\ UNCHANGED <<generation, property, asked, ok, binder, timer, people>>

\* Top of the loop; from the second round on it follows a sleep that outlasts
\* the deadline of the round before.
KaCheck(g) ==
    /\ ka[g] = "check"
    /\ fresh' = (fresh /\ challenge # g)
    /\ KaGoto(g, IF generation = g THEN "reset" ELSE "none")
    /\ UNCHANGED <<generation, property, challenge, verdict, binder, timer, people>>

KaReset(g) ==
    /\ ka[g] = "reset"
    /\ ok' = FALSE
    /\ KaGoto(g, "post")
    /\ UNCHANGED <<generation, property, asked, strikes, binder, timer, people>>

\* A fresh nonce, sent to every registered client; with nobody registered the
\* round is a strike at once.
KaPost(g) ==
    /\ ka[g] = "post"
    /\ challenge' = g
    /\ fresh' = TRUE
    /\ KaGoto(g, IF listed THEN "wait" ELSE "strike")
    /\ UNCHANGED <<generation, property, verdict, binder, timer, people>>

\* The outstanding challenge grows older than CHALLENGE_DEADLINE.
Lapse ==
    /\ fresh
    /\ fresh' = FALSE
    /\ UNCHANGED <<generation, property, challenge, verdict, binder, timer, ka, people>>

\* The thread has slept CHALLENGE_DEADLINE.
KaWake(g) ==
    /\ ka[g] = "wait"
    /\ fresh' = (fresh /\ challenge # g)
    /\ KaGoto(g, IF generation = g THEN "look" ELSE "none")
    /\ UNCHANGED <<generation, property, challenge, verdict, binder, timer, people>>

KaLook(g) ==
    /\ ka[g] = "look"
    /\ IF ok
       THEN strikes' = 0 /\ KaGoto(g, "check")
       ELSE UNCHANGED strikes /\ KaGoto(g, "strike")
    /\ UNCHANGED <<generation, property, asked, ok, binder, timer, people>>

KaStrike(g) ==
    /\ ka[g] = "strike"
    /\ strikes' = strikes + 1
    /\ KaGoto(g, IF strikes + 1 >= Strikes THEN "shut" ELSE "check")
    /\ UNCHANGED <<generation, property, asked, ok, binder, timer, people>>

\* Slip: shut() gives up when it loses the race for the generation, and
\* otherwise leaves the clearing to the timer.
ShutGenerationOnly(g) ==
    /\ ka[g] = "shut"
    /\ generation' = IF generation = g THEN g + 1 ELSE generation
    /\ KaGoto(g, "none")
    /\ UNCHANGED <<property, asked, verdict, binder, timer, people>>

\* shut: retire the generation unless a newer window already has, ...
ShutGeneration(g) ==
    /\ ka[g] = "shut"
    /\ generation' = IF generation = g THEN g + 1 ELSE generation
    /\ KaGoto(g, "shut_challenge")
    /\ UNCHANGED <<property, asked, verdict, binder, timer, people>>

\* ... drop the outstanding challenge, ...
ShutChallenge(g) ==
    /\ ka[g] = "shut_challenge"
    /\ challenge' = 0
    /\ fresh' = FALSE
    /\ KaGoto(g, "shut_exempt")
    /\ UNCHANGED <<generation, property, verdict, binder, timer, people>>

\* ... and withdraw the exemption, whoever's it is.
ShutExempt(g) ==
    /\ ka[g] = "shut_exempt"
    /\ set_exempt(FALSE)
    /\ KaGoto(g, "none")
    /\ UNCHANGED <<generation, asked, verdict, binder, timer, people>>

-----------------------------------------------------------------------------
(* keepUnlocked and the clients *)

\* The challenge is taken whatever the answer: the outstanding nonce, or one of
\* an earlier round.  The right one clears the strikes, and in time it goes on
\* to confirm the round.
KeepUnlocked(right) ==
    /\ bpc = "idle"
    /\ right => challenge # 0
    /\ challenge' = 0
    /\ strikes' = IF right THEN 0 ELSE strikes
    /\ bpc' = IF right /\ fresh THEN "confirming" ELSE "idle"
    /\ fresh' = FALSE
    /\ UNCHANGED <<generation, property, ok, bgen, timer, ka, people>>

KeepUnlockedConfirm ==
    /\ bpc = "confirming"
    /\ ok' = TRUE
    /\ bpc' = "idle"
    /\ UNCHANGED <<generation, property, asked, strikes, bgen, timer, ka, people>>

\* registerCallback links the one DeathRecipient to the caller, replacing the
\* one that was there; where linking fails, the old one stays.
Register(c) ==
    /\ bpc = "idle"
    /\ listed' = TRUE
    /\ watched' \in {{c}, watched}
    /\ UNCHANGED <<generation, property, asked, verdict, binder, timer, ka, notice>>

\* Removes the caller's own callback, which may have been the last one.
Unregister ==
    /\ bpc = "idle"
    /\ listed
    /\ listed' = FALSE
    /\ UNCHANGED <<generation, property, asked, verdict, binder, timer, ka, watched, notice>>

\* A client's process goes away, and may start again.  Its callback stays in the
\* list, and unless it is the one watched nothing happens in the daemon.
Die(c) ==
    /\ c \in watched
    /\ watched' = {}
    /\ notice' = TRUE
    /\ UNCHANGED <<generation, property, asked, verdict, binder, timer, ka, listed>>

DeathNotice ==
    /\ bpc = "idle"
    /\ notice
    /\ notice' = FALSE
    /\ set_exempt(FALSE)
    /\ UNCHANGED <<generation, asked, verdict, binder, timer, ka,
                listed, watched>>

-----------------------------------------------------------------------------
(* The process dies in any state and init starts it again *)

Crash ==
    /\ bpc # "booting"
    /\ bpc' = "booting"
    /\ generation' = 0 /\ bgen' = 0
    /\ challenge' = 0 /\ fresh' = FALSE
    /\ ok' = FALSE /\ strikes' = 0
    /\ timer' = [g \in Gens |-> "none"]
    /\ ka' = [g \in Gens |-> "none"]
    /\ listed' = FALSE /\ watched' = {} /\ notice' = FALSE
    /\ UNCHANGED property

\* Slip: main trusts the property it finds.
BootKeeps ==
    /\ bpc = "booting"
    /\ bpc' = "idle"
    /\ UNCHANGED <<generation, property, asked, verdict, bgen, timer, ka, people>>

\* main withdraws the exemption before it serves anybody.
Boot ==
    /\ bpc = "booting"
    /\ set_exempt(FALSE)
    /\ bpc' = "idle"
    /\ UNCHANGED <<generation, asked, verdict, bgen, timer, ka, people>>

-----------------------------------------------------------------------------
Timer(g) == TimerCheck(g) \/ TimerClear(g)
Keepalive(g) ==
    \/ KaStart(g) \/ KaCheck(g) \/ KaReset(g) \/ KaPost(g) \/ KaWake(g) \/ KaLook(g)
    \/ KaStrike(g) \/ ShutGeneration(g) \/ ShutChallenge(g) \/ ShutExempt(g)
Binder ==
    AuthOpen \/ AuthSpawn \/ AuthClose \/ KeepUnlockedConfirm \/ DeathNotice \/ Boot

WindowNext ==
    \/ \E open \in BOOLEAN : AuthBegin(open)
    \/ Binder \/ Unregister \/ Lapse \/ Crash
    \/ \E g \in Gens : Timer(g) \/ Keepalive(g)
    \/ \E right \in BOOLEAN : KeepUnlocked(right)
    \/ \E c \in Clients : Register(c) \/ Die(c)

WindowSpec == WindowInit /\ [][WindowNext]_windowVars

\* Sleeps end and threads run; clients owe nothing.
Fairness ==
    WF_windowVars(Binder) /\ \A g \in 1 .. MaxGen : WF_windowVars(Timer(g)) /\ WF_windowVars(Keepalive(g))

FairSpec == WindowSpec /\ Fairness

-----------------------------------------------------------------------------
(* Properties *)

\* Every variable keeps its type.
WindowTypeOK ==
    /\ generation \in 0 .. MaxGen + 1
    /\ exempt \in BOOLEAN /\ stuck \in BOOLEAN
    /\ challenge \in 0 .. MaxGen /\ fresh \in BOOLEAN
    /\ ok \in BOOLEAN /\ strikes \in 0 .. Strikes + MaxGen
    /\ bpc \in BinderStates
    /\ bgen \in Nat
    /\ timer \in [Gens -> TimerStates]
    /\ ka \in [Gens -> KeepaliveStates]
    /\ listed \in BOOLEAN /\ watched \subseteq Clients /\ notice \in BOOLEAN

\* "Losing the exemption, never keeping it": whenever the exemption is in force
\* some thread is already committed to withdrawing it -- the timer of the very
\* generation in force, a timer or a shut() past its check, or the call that is
\* about to set it and start both, or the restart of a crashed daemon.  What is
\* left is the case set_exempt logs at error: the property could not be cleared
\* and has not been written since.
ExemptHasCloser ==
    exempt =>
        \/ bpc \in {"opening", "spawning", "closing", "booting"}
        \/ generation \in Gens /\ timer[generation] = "sleeping"
        \/ \E g \in Gens : timer[g] = "expired" \/ ka[g] \in {"shut_challenge", "shut_exempt"}
        \/ stuck

\* And so each window ends, whoever dies, answers or stays silent: an exemption
\* cannot stay in force under one and the same generation for ever, unless the
\* clear fails.  (A new authentication opens a window of its own; after shut()
\* has retired the generation the exemption still has to go.)
WindowCloses ==
    []<>(~exempt \/ stuck) \/ []<><<generation' # generation>>_windowVars
=============================================================================
