----------------------------- MODULE TarishLink ------------------------------
(***************************************************************************)
(* tarishd: the poll loop of src/main.rs, the routing rule of route.rs and *)
(* the session of mosey.rs.  Each pass reads the properties one after the  *)
(* other, so whoever writes them may do so between two reads; the daemon   *)
(* may be killed between any two steps, and the rules it installed stay in *)
(* the kernel while the interface goes with the process.                   *)
(*                                                                         *)
(* Interface indices are fresh names: an acquire gets one that no rule     *)
(* mentions.  Deleting a rule may fail as well as adding one: the code     *)
(* takes any error of a deletion for "none left" and goes on.              *)
(***************************************************************************)
EXTENDS Integers, FiniteSets

CONSTANTS
    MaxIf,         \* interface indices to choose from
    Cap,           \* EXEMPT_MAX, in ticks
    InTurn,        \* bound: what happens to the kill-switch and its probe, and what
                   \* happens to the radio, do not happen at the same time
    KernelFreqs,   \* associations nl80211 may report, in MHz
    PropFreqs      \* frequencies tarish.awdl.sta_freq and its override may hold

ASSUME LinkAssumption == MaxIf \in Nat \ {0} /\ Cap \in Nat /\ InTurn \in BOOLEAN

\* A station is associated at 2.4 GHz, or at 5 or 6 GHz.
ASSUME FreqAssumption ==
    /\ KernelFreqs \subseteq (2400 .. 2500) \cup (5000 .. 7200)
    /\ PropFreqs \subseteq Nat

Indices == 1 .. MaxIf
None == -1

VARIABLES
    want,          \* tarish.awdl.wanted
    exemptProp,    \* tarish.awdl.exempt is "1"
    rules,         \* our fib rules in the kernel: [prio, table]
    unswept,       \* history: the last sweep left a rule it could not delete
    ifindex,       \* index of tlink0, 0 if there is none
    dead,          \* wondertap0 is down or gone under a link we hold
    blind,         \* the shim reports an unusable clock for a minute
    pc,            \* where the poll loop is; "down" when not running
    link,          \* link.is_some()
    late,          \* tlink0 had not appeared when the rule was added
    lastWant,      \* last_want
    lastExempt,    \* last_exempt
    since,         \* ticks since exempt_since, None if unset
    backoff,       \* retry_at is in the future
    cooldown,      \* the last blind restart is recent
    tuned,         \* the session just started: kernel's answer, channel, override
    prohibit,      \* a kill-switch: a prohibit rule is in the kernel
    lockdownProp,  \* tarish.awdl.lockdown
    lastLockdown,  \* last_lockdown
    cut,           \* history: the last dump of the rules was truncated
    unpublished    \* history: the last change of the answer could not be written

props == <<want, exemptProp>>
radio == <<ifindex, dead, blind, link, late>>
clocks == <<since, backoff, cooldown>>
kernel == <<rules, unswept>>
lockdown == <<prohibit, lockdownProp, lastLockdown, cut, unpublished>>
vars == <<want, exemptProp, kernel, ifindex, dead, blind, pc, link, late, lastWant,
          lastExempt, since, backoff, cooldown, tuned, lockdown>>

\* Nothing is asked of the radio, and nothing is left of it.
RadioQuiet == want = "0" /\ ~exemptProp /\ ~link /\ rules = {}

\* No kill-switch, and tarishsharingd has been told so or nothing.
SwitchQuiet == ~prohibit /\ lastLockdown # "yes" /\ lockdownProp # "1" /\ ~cut /\ ~unpublished

NotTuned == [sta |-> 0, channel |-> 0, forced |-> FALSE]

Init ==
    /\ want \in {"unset", "0", "1"} /\ exemptProp \in BOOLEAN
    /\ rules = {} /\ unswept = FALSE /\ ifindex = 0 /\ dead = FALSE /\ blind = FALSE
    /\ pc = "top" /\ link = FALSE /\ late = FALSE
    /\ lastWant = "none" /\ lastExempt = "none" /\ since = None
    /\ backoff = FALSE /\ cooldown = FALSE /\ tuned = NotTuned
    /\ prohibit \in BOOLEAN /\ lockdownProp = "unset" /\ lastLockdown = "none"
    /\ cut = FALSE /\ unpublished = FALSE
    /\ InTurn => RadioQuiet \/ SwitchQuiet
-----------------------------------------------------------------------------
(* Channels. *)

CHANNELS_24 == <<6>>
CHANNELS_5 == <<149, 44>>

\* What nl80211 reports: 0 for no association, or for any error on the way.
frequency_of == KernelFreqs \cup {0}

\* The bench override persist.tarish.sta_freq if it is set (0: it is not), else
\* the kernel's answer if it is one (0: an error, or not associated), else what
\* the client published: -1 with Wi-Fi off, 0 if it does not know.
sta_frequency(override, reported, prop) ==
    IF override \in 2000 .. 7200 THEN override
    ELSE IF reported \in 2000 .. 7200 THEN reported
    ELSE IF prop \in 2000 .. 7200 THEN prop
    ELSE IF prop < 0 THEN -1 ELSE 0

\* persist.tarish.channels: not set, or a list to offer whatever the band.
channel_override == {<<>>, CHANNELS_24, CHANNELS_5}

channels_for(sta) ==
    IF sta >= 5000 THEN <<CHANNELS_24, CHANNELS_5>> ELSE <<CHANNELS_5, CHANNELS_24>>

\* Slip: 6 GHz taken for a band of its own.
SameBandSplitsSix(channels, sta) ==
    /\ sta > 0 /\ sta < 5900
    /\ \A i \in DOMAIN channels : (channels[i] <= 14) <=> (sta < 5000)

same_band_as_sta(channels, sta) ==
    /\ sta > 0
    /\ \A i \in DOMAIN channels : (channels[i] <= 14) <=> (sta < 5000)

\* Candidate lists the library is offered; it may refuse any of them.
Offered(forced, sta) ==
    LET c == channels_for(sta) IN
    IF forced # <<>> THEN {forced}
    ELSE {c[i] : i \in {j \in DOMAIN c : ~same_band_as_sta(c[j], sta)}}
-----------------------------------------------------------------------------
(* route.rs. *)

Rule(exempt, table) == [prio |-> IF exempt THEN "exempt" ELSE "plain", table |-> table]

\* Rules at our two priorities are deleted one by one, until a deletion fails.
\* It fails when there is none left at that priority, and may fail before.
Sweep(swept, kept) == kept \subseteq swept /\ unswept' = (kept # {})

\* Slip: only the priority about to be installed is swept.
AddRuleSweepsOne(exempt) ==
    LET other == {r \in rules : r.prio # Rule(exempt, 0).prio} IN
    IF ifindex = 0 THEN UNCHANGED kernel
    ELSE \E kept \in SUBSET rules :
            /\ Sweep(rules \ other, kept)
            /\ rules' \in {other \cup kept, other \cup kept \cup {Rule(exempt, ifindex)}}

\* No interface, no change; else both priorities are swept, and the kernel takes
\* the new rule or refuses it.
add_rule(exempt) ==
    IF ifindex = 0 THEN UNCHANGED kernel
    ELSE \E kept \in SUBSET rules :
            /\ Sweep(rules, kept)
            /\ rules' \in {kept, kept \cup {Rule(exempt, ifindex)}}

remove_rule == \E kept \in SUBSET rules : Sweep(rules, kept) /\ rules' = kept
-----------------------------------------------------------------------------
(* The poll loop. *)

\* An unset property keeps the radio wanted.
wants_radio == want # "0"

exemption_earned == exemptProp

awdl_link_is_dead == dead

\* How the dump of the kernel's rules may end: whole, with an error on the way,
\* or cut off in front of the rule looked for.
Dumps == {"whole"} \cup (IF InTurn => RadioQuiet THEN {"failed", "cut"} ELSE {})

\* A rule that prohibits is the whole signal; a failed dump counts as one, a
\* truncated one does not.
lockdown_active(dump) == dump = "failed" \/ (dump = "whole" /\ prohibit)

\* write_property works, or it does not and the property stays what it was.
Publish(answer) ==
    \/ lockdownProp' = answer /\ unpublished' = FALSE
    \/ (InTurn => RadioQuiet) /\ UNCHANGED lockdownProp /\ unpublished' = TRUE

\* Slip: only the first answer is published.
ProbeOnce ==
    /\ pc = "top" /\ pc' = "want"
    /\ \E dump \in Dumps :
         /\ cut' = (dump = "cut")
         /\ lastLockdown' = IF lockdown_active(dump) THEN "yes" ELSE "no"
    /\ IF lastLockdown # "none" THEN UNCHANGED <<lockdownProp, unpublished>>
       ELSE Publish(IF lastLockdown' = "yes" THEN "1" ELSE "0")
    /\ UNCHANGED <<props, kernel, radio, lastWant, lastExempt, clocks, tuned, prohibit>>

\* Every LOCKDOWN_EVERY: publish the answer if it changed.  It counts as
\* published whether or not write_property worked.
Probe ==
    /\ pc = "top" /\ pc' = "want"
    /\ \E dump \in Dumps :
         /\ cut' = (dump = "cut")
         /\ lastLockdown' = IF lockdown_active(dump) THEN "yes" ELSE "no"
    /\ IF lastLockdown' = lastLockdown THEN UNCHANGED <<lockdownProp, unpublished>>
       ELSE Publish(IF lastLockdown' = "yes" THEN "1" ELSE "0")
    /\ UNCHANGED <<props, kernel, radio, lastWant, lastExempt, clocks, tuned, prohibit>>

\* Checked less than LOCKDOWN_EVERY ago.
ProbeNotDue ==
    /\ pc = "top" /\ lastLockdown # "none" /\ pc' = "want"
    /\ UNCHANGED <<props, kernel, radio, lastWant, lastExempt, clocks, tuned, lockdown>>

\* Slip: a poll that changes its mind does not write it down.
ReadWantForgets ==
    /\ pc = "want" /\ pc' = "exempt"
    /\ lastWant' = IF lastWant = "none" /\ want = "0" THEN "no" ELSE "yes"
    /\ backoff' = (backoff /\ lastWant' = lastWant)
    /\ UNCHANGED <<props, kernel, radio, lastExempt, since, cooldown, tuned, lockdown>>

\* A changed answer retries at once.
ReadWant ==
    /\ pc = "want" /\ pc' = "exempt"
    /\ lastWant' = IF wants_radio THEN "yes" ELSE "no"
    /\ backoff' = (backoff /\ lastWant' = lastWant)
    /\ UNCHANGED <<props, kernel, radio, lastExempt, since, cooldown, tuned, lockdown>>

\* The property, and our own ceiling on how long it may count.
ReadExempt ==
    LET earned == exemption_earned /\ since <= Cap
        answer == IF earned THEN "yes" ELSE "no" IN
    /\ pc = "exempt"
    /\ since' = IF ~exemption_earned THEN None ELSE IF since = None THEN 0 ELSE since
    /\ lastExempt' = answer
    /\ pc' = IF answer # lastExempt /\ link THEN "move" ELSE "link"
    /\ UNCHANGED <<props, kernel, radio, lastWant, backoff, cooldown, tuned, lockdown>>

\* Slip: only promotions move the rule.
MoveOnlyUp ==
    /\ pc = "move" /\ pc' = "link"
    /\ IF lastExempt = "yes" THEN add_rule(TRUE) ELSE UNCHANGED kernel
    /\ UNCHANGED <<props, radio, lastWant, lastExempt, clocks, tuned, lockdown>>

\* The rule follows the window while the link is up.
Move ==
    /\ pc = "move" /\ pc' = "link"
    /\ add_rule(lastExempt = "yes")
    /\ UNCHANGED <<props, radio, lastWant, lastExempt, clocks, tuned, lockdown>>

\* Drop for Link: the rule first, then the session and its interface.
Drop ==
    /\ remove_rule
    /\ link' = FALSE /\ ifindex' = 0 /\ dead' = FALSE /\ blind' = FALSE /\ late' = FALSE

Released ==
    /\ pc = "link" /\ link /\ lastWant = "no"
    /\ Drop /\ pc' = "sleep"
    /\ UNCHANGED <<props, lastWant, lastExempt, clocks, tuned, lockdown>>

\* Slip: the loop trusts its own link variable.
DiedNever ==
    /\ pc = "link" /\ link /\ lastWant = "yes" /\ dead /\ ifindex = 0
    /\ Drop /\ pc' = "sleep"
    /\ UNCHANGED <<props, lastWant, lastExempt, clocks, tuned, lockdown>>

\* wondertap0 says the link died underneath us.
Died ==
    /\ pc = "link" /\ link /\ lastWant = "yes" /\ awdl_link_is_dead
    /\ Drop /\ pc' = "sleep"
    /\ UNCHANGED <<props, lastWant, lastExempt, clocks, tuned, lockdown>>

\* The blind-session watchdog, at most once per cooldown.
BlindRestart ==
    /\ pc = "link" /\ link /\ lastWant = "yes" /\ ~dead /\ blind /\ ~cooldown
    /\ Drop /\ pc' = "sleep" /\ cooldown' = TRUE
    /\ UNCHANGED <<props, lastWant, lastExempt, since, backoff, tuned, lockdown>>

Holding ==
    /\ pc = "link" /\ link /\ lastWant = "yes" /\ ~dead /\ ~(blind /\ ~cooldown)
    /\ pc' = "sleep"
    /\ UNCHANGED <<props, kernel, radio, lastWant, lastExempt, clocks, tuned, lockdown>>

Waiting ==
    /\ pc = "link" /\ ~link /\ (lastWant = "no" \/ backoff)
    /\ pc' = "sleep"
    /\ UNCHANGED <<props, kernel, radio, lastWant, lastExempt, clocks, tuned, lockdown>>

\* No country, or the library refused every mode and channel.
AcquireRefused ==
    /\ pc = "link" /\ ~link /\ lastWant = "yes" /\ ~backoff
    /\ pc' = "sleep" /\ backoff' = TRUE
    /\ UNCHANGED <<props, kernel, radio, lastWant, lastExempt, since, cooldown, tuned, lockdown>>

\* A session starts on a channel of one of the lists offered, the one an override
\* names if it is set; tlink0 gets a fresh index, or has not appeared when the
\* wait is over.
Acquire ==
    /\ pc = "link" /\ ~link /\ lastWant = "yes" /\ ~backoff
    /\ \E reported \in frequency_of, override \in PropFreqs \cup {0},
          prop \in PropFreqs \cup {-1, 0}, forced \in channel_override :
         \E channels \in Offered(forced, sta_frequency(override, reported, prop)) :
            tuned' = [sta |-> reported, channel |-> channels[1],
                      forced |-> override # 0 \/ forced # <<>>]
    /\ \/ \E i \in Indices : /\ \A r \in rules : r.table # i
                             /\ ifindex' = i
       \/ ifindex' = 0
    /\ late' = (ifindex' = 0)
    /\ link' = TRUE /\ dead' = FALSE /\ blind' = FALSE
    /\ pc' = "rule"
    /\ UNCHANGED <<props, kernel, lastWant, lastExempt, clocks, lockdown>>

\* The tail of Link::acquire: the rule at the priority the property asks for.
AcquireRule ==
    /\ pc = "rule" /\ pc' = "sleep"
    /\ add_rule(exemption_earned)
    /\ tuned' = NotTuned
    /\ UNCHANGED <<props, radio, lastWant, lastExempt, clocks, lockdown>>

Wake == pc = "sleep" /\ pc' = "top" /\ UNCHANGED <<props, kernel, radio, lastWant, lastExempt, clocks, tuned, lockdown>>

\* What tarishsharingd answers the app from the property: unset means yes.
isLockdownActive == lockdownProp # "0"

Loop ==
    \/ Probe \/ ProbeNotDue \/ ReadWant \/ ReadExempt \/ Move \/ Released \/ Died \/ BlindRestart
    \/ Holding \/ Waiting \/ AcquireRefused \/ Acquire \/ AcquireRule \/ Wake
-----------------------------------------------------------------------------
(* The end of the process, and what the rest of the device does. *)

Forget ==
    /\ pc' = "down" /\ lastWant' = "none" /\ lastExempt' = "none" /\ since' = None
    /\ backoff' = FALSE /\ cooldown' = FALSE /\ tuned' = NotTuned
    /\ lastLockdown' = "none" /\ UNCHANGED <<prohibit, lockdownProp, cut, unpublished>>

\* SIGTERM ends the loop and drops the link.
Shutdown ==
    /\ pc = "sleep" /\ link
    /\ Drop /\ Forget
    /\ UNCHANGED props

\* Killed: the interface goes with the session, the rules stay.
Kill ==
    /\ pc # "down"
    /\ link' = FALSE /\ ifindex' = 0 /\ dead' = FALSE /\ blind' = FALSE /\ late' = FALSE
    /\ Forget
    /\ UNCHANGED <<props, kernel>>

Restart == pc = "down" /\ pc' = "top" /\ UNCHANGED <<props, kernel, radio, lastWant, lastExempt, clocks, tuned, lockdown>>

\* tarishsharingd writes the properties; Wi-Fi reloads the driver.
SetWant(w) ==
    /\ InTurn => SwitchQuiet
    /\ want' = w
    /\ UNCHANGED <<exemptProp, kernel, radio, pc, lastWant, lastExempt, clocks, tuned, lockdown>>

SetExempt(e) ==
    /\ InTurn => SwitchQuiet
    /\ exemptProp' = e
    /\ UNCHANGED <<want, kernel, radio, pc, lastWant, lastExempt, clocks, tuned, lockdown>>

Lose ==
    /\ link /\ ~dead /\ dead' = TRUE /\ ifindex' \in {ifindex, 0}
    /\ UNCHANGED <<props, kernel, blind, pc, link, late, lastWant, lastExempt, clocks, tuned, lockdown>>

GoBlind ==
    /\ link /\ ~blind /\ blind' = TRUE
    /\ UNCHANGED <<props, kernel, ifindex, dead, pc, link, late, lastWant, lastExempt, clocks, tuned, lockdown>>

\* tlink0 appears after the wait for it.
Appear ==
    /\ link /\ late /\ ~dead /\ ifindex = 0
    /\ \E i \in Indices : (\A r \in rules : r.table # i) /\ ifindex' = i
    /\ UNCHANGED <<props, kernel, dead, blind, pc, link, late, lastWant, lastExempt, clocks, tuned, lockdown>>

\* A VPN's kill-switch is turned on or off.
KillSwitch ==
    /\ InTurn => RadioQuiet
    /\ prohibit' = ~prohibit
    /\ UNCHANGED <<props, kernel, radio, pc, lastWant, lastExempt, clocks, tuned, lockdownProp, lastLockdown, cut, unpublished>>

Tick ==
    /\ pc # "down"
    /\ since' = IF since = None THEN None ELSE IF since <= Cap THEN since + 1 ELSE since
    /\ backoff' = FALSE /\ cooldown' = FALSE
    /\ UNCHANGED <<props, kernel, radio, pc, lastWant, lastExempt, tuned, lockdown>>

Device ==
    \/ \E w \in {"0", "1"} : SetWant(w)
    \/ \E e \in BOOLEAN : SetExempt(e)
    \/ Lose \/ GoBlind \/ Appear \/ KillSwitch \/ Tick

Next == Loop \/ Shutdown \/ Kill \/ Restart \/ Device

\* The process is scheduled, init restarts it, and the probe comes due again.
Spec == Init /\ [][Next]_vars /\ WF_vars(Loop) /\ WF_vars(Restart) /\ SF_vars(Probe)
-----------------------------------------------------------------------------
\* Every variable keeps its type: every rule names an interface that existed,
\* and the ceiling's clock stops one tick past the ceiling.
TypeOK ==
    /\ want \in {"unset", "0", "1"} /\ exemptProp \in BOOLEAN
    /\ rules \subseteq [prio : {"exempt", "plain"}, table : Indices]
    /\ ifindex \in {0} \cup Indices
    /\ dead \in BOOLEAN /\ blind \in BOOLEAN /\ link \in BOOLEAN /\ late \in BOOLEAN
    /\ unswept \in BOOLEAN /\ cut \in BOOLEAN /\ unpublished \in BOOLEAN
    /\ pc \in {"down", "top", "want", "exempt", "move", "link", "rule", "sleep"}
    /\ lastWant \in {"none", "no", "yes"} /\ lastExempt \in {"none", "no", "yes"}
    /\ since \in None .. (Cap + 1)
    /\ backoff \in BOOLEAN /\ cooldown \in BOOLEAN /\ prohibit \in BOOLEAN
    /\ lockdownProp \in {"unset", "0", "1"} /\ lastLockdown \in {"none", "no", "yes"}

\* A rule reaches the link only through the table of the interface there is.
Above == ifindex # 0 /\ Rule(TRUE, ifindex) \in rules

\* A link whose interface was there when its rule was installed has that rule
\* or none: nothing from before a restart, from an earlier interface or at the
\* other priority is left to outrank it (route.rs: "a stale EXEMPT rule would
\* keep the exemption alive"), except what the kernel refused to delete.
RuleIsCurrent ==
    link /\ ~late /\ ifindex # 0 /\ pc # "rule" /\ ~unswept =>
        \E exempt \in BOOLEAN : rules \subseteq {Rule(exempt, ifindex)}

\* The band of a Wi-Fi association the kernel reported is the band a session is
\* started in only if an override asks for it (main.rs: "losing AWDL beats losing
\* Wi-Fi"; "an explicit channel override still wins").
WifiKept ==
    tuned # NotTuned /\ tuned.sta # 0 /\ ~tuned.forced =>
        (tuned.channel < 15) # (tuned.sta < 3000)

\* A window that a pass of the loop saw open, and that closes or outlives the
\* ceiling, is withdrawn from the kernel, whatever else happens to the link
\* meanwhile, unless the kernel refuses to delete the rule: that is logged and
\* not tried again.  (A window that only Link::acquire saw is another matter: it
\* does not set last_exempt.)
WindowIsWithdrawn ==
    (link /\ lastExempt = "yes" /\ (~exemptProp \/ since > Cap)) ~>
        (~Above \/ (exemptProp /\ since <= Cap) \/ unswept)

\* A link whose radio died is not held for ever.
DeadLinkReleased == (link /\ dead) ~> ~link

\* A kill-switch that stays on is what the app is told, for good: whatever was
\* published before, whoever restarted in between and however often the dump
\* fails.  Two things can keep it from that: dumps that are cut off again and
\* again, and the one write of the answer failing, which is never repeated.
KillSwitchReported ==
    <>[](prohibit /\ ~cut) => <>[](isLockdownActive \/ unpublished)

Switch == INSTANCE RadioSwitch WITH seen <- (lastWant = "yes"), up <- link

\* tarishd is the radio switch the rest of the system counts on.
FollowsWanted == Switch!Spec

\* main.rs, EXEMPT_MAX: "the rule is demoted after this long regardless, and
\* re-promoted only if the property is still set AND has been re-asserted
\* since".  Past the exempt step of a pass, a capped window has no rule above
\* the kill-switch.
CeilingHolds == pc = "link" /\ since > Cap /\ lastExempt = "no" => ~Above
==============================================================================
