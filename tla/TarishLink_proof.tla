-------------------------- MODULE TarishLink_proof --------------------------
(***************************************************************************)
(* tarishd, for every number of interface indices, every ceiling and every *)
(* set of frequencies: its state is typed, the routing rule is the current *)
(* interface's, a session starts in the band of the association the kernel *)
(* reported only where an override says so, and each step is a step of     *)
(* RadioSwitch.                                                            *)
(*                                                                         *)
(* RuleIsCurrent needs no strengthening beyond types: whatever crosses the *)
(* death of an interface or of the process, add_rule sweeps before a link  *)
(* counts as up.  WifiKept needs to know that a tuned session was offered  *)
(* channels chosen for the frequency it recorded.                          *)
(*                                                                         *)
(* And the authenticated window of tarishsharingd (AuthWindow), which sets *)
(* the property tarishd reads: for any number of clients, strikes, windows *)
(* and challenges the exemption never outlives everyone who would withdraw *)
(* it.                                                                     *)
(***************************************************************************)
EXTENDS TarishLink, AuthWindow, TLAPS

Places == {"down", "top", "want", "exempt", "move", "link", "rule", "sleep"}
Answers == {"none", "no", "yes"}

RadioType ==
    /\ rules \subseteq [prio : {"exempt", "plain"}, table : Indices]
    /\ ifindex \in {0} \cup Indices

Flags ==
    /\ exemptProp \in BOOLEAN /\ dead \in BOOLEAN /\ blind \in BOOLEAN /\ link \in BOOLEAN
    /\ late \in BOOLEAN /\ backoff \in BOOLEAN /\ cooldown \in BOOLEAN /\ prohibit \in BOOLEAN
    /\ unswept \in BOOLEAN /\ cut \in BOOLEAN /\ unpublished \in BOOLEAN

Words ==
    /\ want \in {"unset", "0", "1"} /\ pc \in Places
    /\ lastWant \in Answers /\ lastExempt \in Answers
    /\ lockdownProp \in {"unset", "0", "1"} /\ lastLockdown \in Answers

Clock == since \in None .. (Cap + 1)

IInv == RadioType /\ Flags /\ Words /\ Clock /\ RuleIsCurrent /\ WifiKept

\* add_rule leaves well-formed rules, and on an interface only that
\* interface's rule at the priority asked for, or what it could not delete.
LEMMA AddRuleFacts ==
    ASSUME NEW ex \in BOOLEAN, RadioType, add_rule(ex)
    PROVE  /\ rules' \subseteq [prio : {"exempt", "plain"}, table : Indices]
           /\ unswept \in BOOLEAN => unswept' \in BOOLEAN
           /\ ifindex # 0 /\ ~unswept' => rules' \subseteq {Rule(ex, ifindex)}
  <1>1. CASE ifindex = 0
    BY <1>1 DEF add_rule, RadioType, kernel
  <1>2. CASE ifindex # 0
    <2>1. ifindex \in Indices
      BY <1>2 DEF RadioType
    <2>2. PICK kept \in SUBSET rules :
             /\ unswept' = (kept # {})
             /\ rules' \in {kept, kept \cup {Rule(ex, ifindex)}}
      BY <1>2 DEF add_rule, Sweep
    <2>3. Rule(ex, ifindex) \in [prio : {"exempt", "plain"}, table : Indices]
      BY <2>1 DEF Rule
    <2>4. rules' \subseteq [prio : {"exempt", "plain"}, table : Indices]
      BY <2>2, <2>3 DEF RadioType
    <2>5. QED
      BY <2>2, <2>4
  <1>3. QED
    BY <1>1, <1>2

\* remove_rule leaves some of the rules, or none.
LEMMA RemoveRuleFacts ==
    ASSUME remove_rule
    PROVE  rules' \subseteq rules /\ unswept' \in BOOLEAN
  BY DEF remove_rule, Sweep

\* With no override set, a list offered for a frequency the kernel reported is
\* of the other band.
LEMMA OfferedOtherBand ==
    ASSUME NEW reported \in KernelFreqs, NEW prop \in PropFreqs \cup {-1, 0},
           NEW channels \in Offered(<<>>, sta_frequency(0, reported, prop))
    PROVE  (channels[1] < 15) # (reported < 3000)
  <1>1. reported \in (2400 .. 2500) \cup (5000 .. 7200)
    BY FreqAssumption
  <1>2. sta_frequency(0, reported, prop) = reported
    BY <1>1 DEF sta_frequency
  <1>3. PICK j \in 1 .. 2 : /\ channels = channels_for(reported)[j]
                            /\ ~same_band_as_sta(channels, reported)
    BY <1>2 DEF Offered, channels_for
  <1>4. channels \in {CHANNELS_24, CHANNELS_5}
    BY <1>3 DEF channels_for
  <1>5. CASE channels = CHANNELS_24
    BY <1>1, <1>3, <1>5 DEF same_band_as_sta, CHANNELS_24
  <1>6. CASE channels = CHANNELS_5
    BY <1>1, <1>3, <1>6 DEF same_band_as_sta, CHANNELS_5
  <1>7. QED
    BY <1>4, <1>5, <1>6

\* The state the process starts in.
LEMMA InitIInv == Init => IInv
  <1> SUFFICES ASSUME Init PROVE IInv
    OBVIOUS
  <1>1. RadioType /\ Clock
    BY LinkAssumption DEF Init, RadioType, Clock, None
  <1>2. Flags /\ Words
    BY DEF Init, Flags, Words, Places, Answers
  <1>3. RuleIsCurrent /\ WifiKept
    BY DEF Init, RuleIsCurrent, WifiKept
  <1>4. QED
    BY <1>1, <1>2, <1>3 DEF IInv

\* The flags, words and clocks keep their types in every step.
LEMMA Typed == ASSUME IInv, Next PROVE Flags' /\ Words' /\ Clock'
  <1>1. CASE Probe
    <2>1. Flags'
      BY <1>1 DEF IInv, Flags, Probe, props, radio, clocks, lockdown, kernel, Publish
    <2>2. Words'
      BY <1>1 DEF IInv, Words, Places, Answers, Probe, props, radio, clocks, lockdown, kernel, Publish
    <2>3. Clock'
      BY <1>1, LinkAssumption DEF IInv, Clock, None, Probe, props, radio, clocks, lockdown, kernel, Publish
    <2>4. QED
      BY <2>1, <2>2, <2>3
  <1>2. CASE ProbeNotDue
    <2>1. Flags'
      BY <1>2 DEF IInv, Flags, ProbeNotDue, props, radio, clocks, lockdown, kernel
    <2>2. Words'
      BY <1>2 DEF IInv, Words, Places, Answers, ProbeNotDue, props, radio, clocks, lockdown, kernel
    <2>3. Clock'
      BY <1>2, LinkAssumption DEF IInv, Clock, None, ProbeNotDue, props, radio, clocks, lockdown, kernel
    <2>4. QED
      BY <2>1, <2>2, <2>3
  <1>3. CASE ReadWant
    <2>1. Flags'
      BY <1>3 DEF IInv, Flags, ReadWant, wants_radio, props, radio, clocks, lockdown, kernel
    <2>2. Words'
      BY <1>3 DEF IInv, Words, Places, Answers, ReadWant, wants_radio, props, radio, clocks, lockdown, kernel
    <2>3. Clock'
      BY <1>3, LinkAssumption DEF IInv, Clock, None, ReadWant, wants_radio, props, radio, clocks, lockdown, kernel
    <2>4. QED
      BY <2>1, <2>2, <2>3
  <1>4. CASE ReadExempt
    <2>1. Flags'
      BY <1>4 DEF IInv, Flags, ReadExempt, exemption_earned, props, radio, clocks, lockdown, kernel
    <2>2. Words'
      BY <1>4 DEF IInv, Words, Places, Answers, ReadExempt, exemption_earned, props, radio, clocks, lockdown, kernel
    <2>3. Clock'
      BY <1>4, LinkAssumption DEF IInv, Clock, None, ReadExempt, exemption_earned, props, radio, clocks, lockdown, kernel
    <2>4. QED
      BY <2>1, <2>2, <2>3
  <1>5. CASE Move
    <2>0. unswept' \in BOOLEAN
      BY <1>5, AddRuleFacts DEF Move, IInv, Flags
    <2>1. Flags'
      BY <1>5, <2>0 DEF IInv, Flags, Move, props, radio, clocks, lockdown
    <2>2. Words'
      BY <1>5 DEF IInv, Words, Places, Answers, Move, props, radio, clocks, lockdown, kernel
    <2>3. Clock'
      BY <1>5, LinkAssumption DEF IInv, Clock, None, Move, props, radio, clocks, lockdown, kernel
    <2>4. QED
      BY <2>1, <2>2, <2>3
  <1>6. CASE Released
    <2>1. Flags'
      BY <1>6, RemoveRuleFacts DEF IInv, Flags, Released, props, radio, clocks, lockdown, kernel, Drop
    <2>2. Words'
      BY <1>6 DEF IInv, Words, Places, Answers, Released, props, radio, clocks, lockdown, kernel, Drop
    <2>3. Clock'
      BY <1>6, LinkAssumption DEF IInv, Clock, None, Released, props, radio, clocks, lockdown, kernel, Drop
    <2>4. QED
      BY <2>1, <2>2, <2>3
  <1>7. CASE Died
    <2>1. Flags'
      BY <1>7, RemoveRuleFacts DEF IInv, Flags, Died, awdl_link_is_dead, props, radio, clocks, lockdown, kernel, Drop
    <2>2. Words'
      BY <1>7 DEF IInv, Words, Places, Answers, Died, awdl_link_is_dead, props, radio, clocks, lockdown, kernel, Drop
    <2>3. Clock'
      BY <1>7, LinkAssumption DEF IInv, Clock, None, Died, awdl_link_is_dead, props, radio, clocks, lockdown, kernel, Drop
    <2>4. QED
      BY <2>1, <2>2, <2>3
  <1>8. CASE BlindRestart
    <2>1. Flags'
      BY <1>8, RemoveRuleFacts DEF IInv, Flags, BlindRestart, props, radio, clocks, lockdown, kernel, Drop
    <2>2. Words'
      BY <1>8 DEF IInv, Words, Places, Answers, BlindRestart, props, radio, clocks, lockdown, kernel, Drop
    <2>3. Clock'
      BY <1>8, LinkAssumption DEF IInv, Clock, None, BlindRestart, props, radio, clocks, lockdown, kernel, Drop
    <2>4. QED
      BY <2>1, <2>2, <2>3
  <1>9. CASE Holding
    <2>1. Flags'
      BY <1>9 DEF IInv, Flags, Holding, props, radio, clocks, lockdown, kernel
    <2>2. Words'
      BY <1>9 DEF IInv, Words, Places, Answers, Holding, props, radio, clocks, lockdown, kernel
    <2>3. Clock'
      BY <1>9, LinkAssumption DEF IInv, Clock, None, Holding, props, radio, clocks, lockdown, kernel
    <2>4. QED
      BY <2>1, <2>2, <2>3
  <1>10. CASE Waiting
    <2>1. Flags'
      BY <1>10 DEF IInv, Flags, Waiting, props, radio, clocks, lockdown, kernel
    <2>2. Words'
      BY <1>10 DEF IInv, Words, Places, Answers, Waiting, props, radio, clocks, lockdown, kernel
    <2>3. Clock'
      BY <1>10, LinkAssumption DEF IInv, Clock, None, Waiting, props, radio, clocks, lockdown, kernel
    <2>4. QED
      BY <2>1, <2>2, <2>3
  <1>11. CASE AcquireRefused
    <2>1. Flags'
      BY <1>11 DEF IInv, Flags, AcquireRefused, props, radio, clocks, lockdown, kernel
    <2>2. Words'
      BY <1>11 DEF IInv, Words, Places, Answers, AcquireRefused, props, radio, clocks, lockdown, kernel
    <2>3. Clock'
      BY <1>11, LinkAssumption DEF IInv, Clock, None, AcquireRefused, props, radio, clocks, lockdown, kernel
    <2>4. QED
      BY <2>1, <2>2, <2>3
  <1>12. CASE Acquire
    <2>1. Flags'
      BY <1>12 DEF IInv, Flags, Acquire, frequency_of, props, radio, clocks, lockdown, kernel
    <2>2. Words'
      BY <1>12 DEF IInv, Words, Places, Answers, Acquire, frequency_of, props, radio, clocks, lockdown, kernel
    <2>3. Clock'
      BY <1>12, LinkAssumption DEF IInv, Clock, None, Acquire, frequency_of, props, radio, clocks, lockdown, kernel
    <2>4. QED
      BY <2>1, <2>2, <2>3
  <1>13. CASE AcquireRule
    <2>0. unswept' \in BOOLEAN
      BY <1>13, AddRuleFacts DEF AcquireRule, exemption_earned, IInv, Flags
    <2>1. Flags'
      BY <1>13, <2>0 DEF IInv, Flags, AcquireRule, exemption_earned, props, radio, clocks, lockdown
    <2>2. Words'
      BY <1>13 DEF IInv, Words, Places, Answers, AcquireRule, exemption_earned, props, radio, clocks, lockdown, kernel
    <2>3. Clock'
      BY <1>13, LinkAssumption DEF IInv, Clock, None, AcquireRule, exemption_earned, props, radio, clocks, lockdown, kernel
    <2>4. QED
      BY <2>1, <2>2, <2>3
  <1>14. CASE Wake
    <2>1. Flags'
      BY <1>14 DEF IInv, Flags, Wake, props, radio, clocks, lockdown, kernel
    <2>2. Words'
      BY <1>14 DEF IInv, Words, Places, Answers, Wake, props, radio, clocks, lockdown, kernel
    <2>3. Clock'
      BY <1>14, LinkAssumption DEF IInv, Clock, None, Wake, props, radio, clocks, lockdown, kernel
    <2>4. QED
      BY <2>1, <2>2, <2>3
  <1>15. CASE Shutdown
    <2>1. Flags'
      BY <1>15, RemoveRuleFacts DEF IInv, Flags, Shutdown, props, radio, clocks, lockdown, kernel, Drop, Forget
    <2>2. Words'
      BY <1>15 DEF IInv, Words, Places, Answers, Shutdown, props, radio, clocks, lockdown, kernel, Drop, Forget
    <2>3. Clock'
      BY <1>15, LinkAssumption DEF IInv, Clock, None, Shutdown, props, radio, clocks, lockdown, kernel, Drop, Forget
    <2>4. QED
      BY <2>1, <2>2, <2>3
  <1>16. CASE Kill
    <2>1. Flags'
      BY <1>16 DEF IInv, Flags, Kill, props, radio, clocks, lockdown, kernel, Forget
    <2>2. Words'
      BY <1>16 DEF IInv, Words, Places, Answers, Kill, props, radio, clocks, lockdown, kernel, Forget
    <2>3. Clock'
      BY <1>16, LinkAssumption DEF IInv, Clock, None, Kill, props, radio, clocks, lockdown, kernel, Forget
    <2>4. QED
      BY <2>1, <2>2, <2>3
  <1>17. CASE Restart
    <2>1. Flags'
      BY <1>17 DEF IInv, Flags, Restart, props, radio, clocks, lockdown, kernel
    <2>2. Words'
      BY <1>17 DEF IInv, Words, Places, Answers, Restart, props, radio, clocks, lockdown, kernel
    <2>3. Clock'
      BY <1>17, LinkAssumption DEF IInv, Clock, None, Restart, props, radio, clocks, lockdown, kernel
    <2>4. QED
      BY <2>1, <2>2, <2>3
  <1>18. CASE Lose
    <2>1. Flags'
      BY <1>18 DEF IInv, Flags, Lose, props, radio, clocks, lockdown, kernel
    <2>2. Words'
      BY <1>18 DEF IInv, Words, Places, Answers, Lose, props, radio, clocks, lockdown, kernel
    <2>3. Clock'
      BY <1>18, LinkAssumption DEF IInv, Clock, None, Lose, props, radio, clocks, lockdown, kernel
    <2>4. QED
      BY <2>1, <2>2, <2>3
  <1>19. CASE GoBlind
    <2>1. Flags'
      BY <1>19 DEF IInv, Flags, GoBlind, props, radio, clocks, lockdown, kernel
    <2>2. Words'
      BY <1>19 DEF IInv, Words, Places, Answers, GoBlind, props, radio, clocks, lockdown, kernel
    <2>3. Clock'
      BY <1>19, LinkAssumption DEF IInv, Clock, None, GoBlind, props, radio, clocks, lockdown, kernel
    <2>4. QED
      BY <2>1, <2>2, <2>3
  <1>20. CASE Appear
    <2>1. Flags'
      BY <1>20 DEF IInv, Flags, Appear, props, radio, clocks, lockdown, kernel
    <2>2. Words'
      BY <1>20 DEF IInv, Words, Places, Answers, Appear, props, radio, clocks, lockdown, kernel
    <2>3. Clock'
      BY <1>20, LinkAssumption DEF IInv, Clock, None, Appear, props, radio, clocks, lockdown, kernel
    <2>4. QED
      BY <2>1, <2>2, <2>3
  <1>21. CASE KillSwitch
    <2>1. Flags'
      BY <1>21 DEF IInv, Flags, KillSwitch, props, radio, clocks, lockdown, kernel
    <2>2. Words'
      BY <1>21 DEF IInv, Words, Places, Answers, KillSwitch, props, radio, clocks, lockdown, kernel
    <2>3. Clock'
      BY <1>21, LinkAssumption DEF IInv, Clock, None, KillSwitch, props, radio, clocks, lockdown, kernel
    <2>4. QED
      BY <2>1, <2>2, <2>3
  <1>22. CASE Tick
    <2>1. Flags'
      BY <1>22 DEF IInv, Flags, Tick, props, radio, clocks, lockdown, kernel
    <2>2. Words'
      BY <1>22 DEF IInv, Words, Places, Answers, Tick, props, radio, clocks, lockdown, kernel
    <2>3. Clock'
      BY <1>22, LinkAssumption DEF IInv, Clock, None, Tick, props, radio, clocks, lockdown, kernel
    <2>4. QED
      BY <2>1, <2>2, <2>3
  <1>23. ASSUME NEW w \in {"0", "1"}, SetWant(w) PROVE Flags' /\ Words' /\ Clock'
    BY <1>23 DEF IInv, Flags, Words, Clock, SetWant, props, radio, clocks, lockdown, kernel
  <1>24. ASSUME NEW e \in BOOLEAN, SetExempt(e) PROVE Flags' /\ Words' /\ Clock'
    BY <1>24 DEF IInv, Flags, Words, Clock, SetExempt, props, radio, clocks, lockdown, kernel
  <1>25. QED
    BY <1>1, <1>2, <1>3, <1>4, <1>5, <1>6, <1>7, <1>8, <1>9, <1>10, <1>11, <1>12, <1>13, <1>14, <1>15, <1>16, <1>17, <1>18, <1>19, <1>20, <1>21, <1>22, <1>23, <1>24 DEF Next, Loop, Device

\* Steps that leave the rules, the interface and the session alone.
LEMMA Quiet ==
    ASSUME IInv, UNCHANGED <<rules, unswept, ifindex, link, late, tuned>>, pc # "rule" \/ pc' = pc
    PROVE  RadioType' /\ RuleIsCurrent' /\ WifiKept'
  <1>1. RadioType'
    BY DEF IInv, RadioType
  <1>2. RuleIsCurrent'
    BY DEF IInv, RuleIsCurrent, Rule
  <1>3. WifiKept'
    BY DEF IInv, WifiKept, NotTuned
  <1>4. QED
    BY <1>1, <1>2, <1>3

\* Steps after which there is no link.
LEMMA Unlinked ==
    ASSUME IInv, link' = FALSE, ifindex' = 0, rules' \subseteq rules, tuned' \in {tuned, NotTuned}
    PROVE  RadioType' /\ RuleIsCurrent' /\ WifiKept'
  <1>1. RadioType'
    BY DEF IInv, RadioType
  <1>2. RuleIsCurrent'
    BY DEF RuleIsCurrent
  <1>3. WifiKept'
    BY DEF IInv, WifiKept, NotTuned
  <1>4. QED
    BY <1>1, <1>2, <1>3

\* Every step keeps the rules current and the session off the station's band.
LEMMA Kept == ASSUME IInv, Next PROVE RadioType' /\ RuleIsCurrent' /\ WifiKept'
  <1>1. CASE Probe
    BY <1>1, Quiet DEF Probe, props, radio, clocks, lockdown, kernel
  <1>2. CASE ProbeNotDue
    BY <1>2, Quiet DEF ProbeNotDue, props, radio, clocks, lockdown, kernel
  <1>3. CASE ReadWant
    BY <1>3, Quiet DEF ReadWant, wants_radio, props, radio, clocks, lockdown, kernel
  <1>4. CASE ReadExempt
    BY <1>4, Quiet DEF ReadExempt, exemption_earned, props, radio, clocks, lockdown, kernel
  <1>5. CASE Holding
    BY <1>5, Quiet DEF Holding, props, radio, clocks, lockdown, kernel
  <1>6. CASE Waiting
    BY <1>6, Quiet DEF Waiting, props, radio, clocks, lockdown, kernel
  <1>7. CASE AcquireRefused
    BY <1>7, Quiet DEF AcquireRefused, props, radio, clocks, lockdown, kernel
  <1>8. CASE Wake
    BY <1>8, Quiet DEF Wake, props, radio, clocks, lockdown, kernel
  <1>9. CASE Restart
    BY <1>9, Quiet DEF Restart, props, radio, clocks, lockdown, kernel
  <1>10. CASE GoBlind
    BY <1>10, Quiet DEF GoBlind, props, radio, clocks, lockdown, kernel
  <1>11. CASE KillSwitch
    BY <1>11, Quiet DEF KillSwitch, props, radio, clocks, lockdown, kernel
  <1>12. CASE Tick
    BY <1>12, Quiet DEF Tick, props, radio, clocks, lockdown, kernel
  <1>13. CASE Released
    BY <1>13, Unlinked, RemoveRuleFacts DEF Released, Drop, props, radio, clocks, lockdown, kernel
  <1>14. CASE Died
    BY <1>14, Unlinked, RemoveRuleFacts DEF Died, awdl_link_is_dead, Drop, props, radio, clocks, lockdown, kernel
  <1>15. CASE BlindRestart
    BY <1>15, Unlinked, RemoveRuleFacts DEF BlindRestart, Drop, props, radio, clocks, lockdown, kernel
  <1>16. CASE Shutdown
    BY <1>16, Unlinked, RemoveRuleFacts DEF Shutdown, Drop, Forget, props, radio, clocks, lockdown, kernel
  <1>17. CASE Kill
    BY <1>17, Unlinked DEF Kill, Forget, props, radio, clocks, lockdown, kernel
  <1>18. CASE Move
    <2>1. (lastExempt = "yes") \in BOOLEAN
      OBVIOUS
    <2>2. add_rule(lastExempt = "yes") /\ UNCHANGED <<ifindex, link, late, tuned>>
      BY <1>18 DEF Move, radio
    <2>3. /\ rules' \subseteq [prio : {"exempt", "plain"}, table : Indices]
          /\ ifindex # 0 /\ ~unswept' => rules' \subseteq {Rule(lastExempt = "yes", ifindex)}
      BY <2>1, <2>2, AddRuleFacts DEF IInv
    <2>4. RadioType'
      BY <2>2, <2>3 DEF IInv, RadioType
    <2>5. RuleIsCurrent'
      BY <2>1, <2>2, <2>3 DEF RuleIsCurrent, Rule
    <2>6. WifiKept'
      BY <2>2 DEF IInv, WifiKept, NotTuned
    <2>7. QED
      BY <2>4, <2>5, <2>6
  <1>19. CASE AcquireRule
    <2>1. exemptProp \in BOOLEAN
      BY DEF IInv, Flags
    <2>2. add_rule(exemptProp) /\ UNCHANGED <<ifindex, link, late>> /\ tuned' = NotTuned
      BY <1>19 DEF AcquireRule, exemption_earned, radio
    <2>3. /\ rules' \subseteq [prio : {"exempt", "plain"}, table : Indices]
          /\ ifindex # 0 /\ ~unswept' => rules' \subseteq {Rule(exemptProp, ifindex)}
      BY <2>1, <2>2, AddRuleFacts DEF IInv
    <2>4. RadioType'
      BY <2>2, <2>3 DEF IInv, RadioType
    <2>5. RuleIsCurrent'
      BY <2>1, <2>2, <2>3 DEF RuleIsCurrent, Rule
    <2>6. WifiKept'
      BY <2>2 DEF WifiKept, NotTuned
    <2>7. QED
      BY <2>4, <2>5, <2>6
  <1>20. CASE Acquire
    <2>1. RadioType'
      BY <1>20 DEF IInv, RadioType, Acquire, kernel
    <2>2. RuleIsCurrent'
      BY <1>20 DEF RuleIsCurrent, Acquire
    <2>3. PICK reported \in KernelFreqs \cup {0}, override \in PropFreqs \cup {0},
                prop \in PropFreqs \cup {-1, 0}, forced \in channel_override :
             \E channels \in Offered(forced, sta_frequency(override, reported, prop)) :
                tuned' = [sta |-> reported, channel |-> channels[1],
                          forced |-> override # 0 \/ forced # <<>>]
      BY <1>20 DEF Acquire, frequency_of
    <2>4. PICK channels \in Offered(forced, sta_frequency(override, reported, prop)) :
             tuned' = [sta |-> reported, channel |-> channels[1],
                       forced |-> override # 0 \/ forced # <<>>]
      BY <2>3
    <2>5. ASSUME reported = 0 \/ override # 0 \/ forced # <<>> PROVE WifiKept'
      BY <2>4, <2>5 DEF WifiKept
    <2>6. ASSUME reported \in KernelFreqs, override = 0, forced = <<>> PROVE WifiKept'
      <3>1. channels \in Offered(<<>>, sta_frequency(0, reported, prop))
        BY <2>6
      <3>2. (channels[1] < 15) # (reported < 3000)
        BY <2>6, <3>1, OfferedOtherBand
      <3>3. QED
        BY <2>4, <3>2 DEF WifiKept
    <2>7. QED
      BY <2>1, <2>2, <2>5, <2>6
  <1>21. CASE Lose
    <2>1. RadioType' /\ RuleIsCurrent'
      BY <1>21 DEF IInv, RadioType, RuleIsCurrent, Rule, Lose, kernel
    <2>2. WifiKept'
      BY <1>21 DEF IInv, WifiKept, NotTuned, Lose
    <2>3. QED
      BY <2>1, <2>2
  <1>22. CASE Appear
    <2>1. RadioType' /\ RuleIsCurrent'
      BY <1>22 DEF IInv, RadioType, RuleIsCurrent, Rule, Appear, kernel
    <2>2. WifiKept'
      BY <1>22 DEF IInv, WifiKept, NotTuned, Appear
    <2>3. QED
      BY <2>1, <2>2
  <1>23. ASSUME NEW w \in {"0", "1"}, SetWant(w) PROVE RadioType' /\ RuleIsCurrent' /\ WifiKept'
    BY <1>23, Quiet DEF SetWant, radio, kernel
  <1>24. ASSUME NEW e \in BOOLEAN, SetExempt(e) PROVE RadioType' /\ RuleIsCurrent' /\ WifiKept'
    BY <1>24, Quiet DEF SetExempt, radio, kernel
  <1>25. QED
    BY <1>1, <1>2, <1>3, <1>4, <1>5, <1>6, <1>7, <1>8, <1>9, <1>10, <1>11, <1>12, <1>13, <1>14, <1>15, <1>16, <1>17, <1>18, <1>19, <1>20, <1>21, <1>22, <1>23, <1>24 DEF Next, Loop, Device

\* The invariant holds throughout.
LEMMA AlwaysIInv == Spec => []IInv
  <1>1. Init => IInv
    BY InitIInv
  <1>2. IInv /\ [Next]_vars => IInv'
    <2> SUFFICES ASSUME IInv, [Next]_vars PROVE IInv'
      OBVIOUS
    <2>1. CASE Next
      BY <2>1, Typed, Kept DEF IInv
    <2>2. CASE UNCHANGED vars
      <3>1. Flags' /\ Words' /\ Clock'
        BY <2>2 DEF vars, kernel, lockdown, IInv, Flags, Words, Clock
      <3>2. QED
        BY <2>2, <3>1, Quiet DEF vars, kernel, IInv
    <2>3. QED
      BY <2>1, <2>2
  <1>3. QED
    BY <1>1, <1>2, PTL DEF Spec

\* Every variable of the poll loop has its type, for any bounds.
THEOREM LinkTyped == Spec => []TypeOK
  <1>1. IInv => TypeOK
    BY DEF IInv, RadioType, Flags, Words, Clock, Places, Answers, TypeOK
  <1>2. QED
    BY <1>1, AlwaysIInv, PTL

\* Through crashes, restarts and lost interfaces, no rule of an earlier
\* interface or of the other priority outranks the one of a link that is up,
\* unless the kernel refused to delete it.
THEOREM RuleStaysCurrent == Spec => []RuleIsCurrent
  <1>1. IInv => RuleIsCurrent
    BY DEF IInv
  <1>2. QED
    BY <1>1, AlwaysIInv, PTL

\* For every frequency a station can have, the session starts in the band the
\* kernel did not report, unless an override says otherwise.
THEOREM WifiStaysKept == Spec => []WifiKept
  <1>1. IInv => WifiKept
    BY DEF IInv
  <1>2. QED
    BY <1>1, AlwaysIInv, PTL

\* tarishd implements the safety of RadioSwitch: it takes the radio only on the
\* strength of a poll that asked for it, and changes its mind only by polling
\* or by dying.  (That it releases is liveness, and left to the run.)
THEOREM LinkIsSwitch == Spec => Switch!Init /\ [][Switch!Next]_<<want, (lastWant = "yes"), link>>
  <1>1. Init => Switch!Init
    BY DEF Init, Switch!Init
  <1>2. IInv /\ [Next]_vars => [Switch!Next]_<<want, (lastWant = "yes"), link>>
    <2> SUFFICES ASSUME IInv, [Next]_vars
                 PROVE  [Switch!Next]_<<want, (lastWant = "yes"), link>>
      OBVIOUS
    <2>1. CASE ReadWant
      <3>1. (lastWant' = "yes") = Switch!Wanted(want)
        BY <2>1 DEF ReadWant, wants_radio, Switch!Wanted
      <3>2. QED
        BY <2>1, <3>1 DEF ReadWant, wants_radio, props, radio, Switch!Next, Switch!See
    <2>2. CASE Acquire
      BY <2>2 DEF Acquire, frequency_of, props, Switch!Next, Switch!Raise
    <2>3. CASE Released \/ Died \/ BlindRestart
      BY <2>3 DEF Released, Died, awdl_link_is_dead, BlindRestart, Drop, props, Switch!Next, Switch!Lower
    <2>4. CASE Shutdown \/ Kill
      BY <2>4 DEF Shutdown, Kill, Drop, Forget, props, Switch!Next, Switch!Die
    <2>5. CASE \/ Probe \/ ProbeNotDue \/ ReadExempt \/ Move \/ Holding \/ Waiting
               \/ AcquireRefused \/ AcquireRule \/ Wake \/ Restart \/ UNCHANGED vars
      BY <2>5 DEF Probe, ProbeNotDue, ReadExempt, exemption_earned, Move, Holding, Waiting, AcquireRefused,
                  AcquireRule, Wake, Restart, vars, props, radio
    <2>6. CASE Device
      BY <2>6 DEF Device, SetWant, SetExempt, Lose, GoBlind, Appear, KillSwitch, Tick, props,
                  radio, Switch!Next, Switch!Ask
    <2>7. QED
      BY <2>1, <2>2, <2>3, <2>4, <2>5, <2>6 DEF Next, Loop
  <1>3. QED
    BY <1>1, <1>2, AlwaysIInv, PTL DEF Spec

-----------------------------------------------------------------------------
(* The window that earns the exemption.                                    *)
(*                                                                         *)
(* ExemptHasCloser is not inductive: opening a window relies on nobody     *)
(* moving the generation between setAuthenticated taking it and its timer  *)
(* starting.  Only a challenge thread moves it, and only its own, so what  *)
(* is needed is that the generation being opened has no such thread yet.   *)

\* The parts of the state the argument is about.
WindowShape ==
    /\ generation \in 0 .. MaxGen + 1
    /\ exempt \in BOOLEAN /\ stuck \in BOOLEAN
    /\ bpc \in BinderStates
    /\ timer \in [Gens -> TimerStates]
    /\ ka \in [Gens -> KeepaliveStates]

\* A window being opened is the current one and has no challenge thread.
Opening ==
    bpc \in {"opening", "spawning"} =>
        bgen = generation /\ generation \in 1 .. MaxGen /\ ka[generation] = "none"

\* Generations setAuthenticated has not handed out have no challenge thread.
Future == \A g \in Gens : g > generation \/ g > MaxGen => ka[g] = "none"

WindowInv == WindowShape /\ Opening /\ Future /\ ExemptHasCloser

\* The state main starts from.
LEMMA WindowFirst ==
    ASSUME WindowInit
    PROVE  WindowInv
  <1>1. WindowShape
    <2>1. generation \in 0 .. MaxGen + 1
      BY WindowAssumption DEF WindowInit
    <2>2. exempt \in BOOLEAN /\ stuck \in BOOLEAN /\ bpc \in BinderStates
      BY DEF WindowInit, BinderStates
    <2>3. timer \in [Gens -> TimerStates]
      BY DEF WindowInit, TimerStates
    <2>4. ka \in [Gens -> KeepaliveStates]
      BY DEF WindowInit, KeepaliveStates
    <2>5. QED
      BY <2>1, <2>2, <2>3, <2>4 DEF WindowShape
  <1>2. Opening /\ Future
    BY DEF WindowInit, Opening, Future
  <1>3. ExemptHasCloser
    BY DEF WindowInit, ExemptHasCloser
  <1>4. QED
    BY <1>1, <1>2, <1>3 DEF WindowInv

\* The steps of a challenge thread that touch neither the generation nor the
\* property.
LEMMA KaMove ==
    ASSUME WindowInv, NEW g \in Gens, NEW l \in KeepaliveStates,
           ka[g] # "none", ka[g] \notin {"shut_challenge", "shut_exempt"},
           KaGoto(g, l), UNCHANGED <<generation, exempt, stuck, bpc, bgen, timer>>
    PROVE  WindowInv'
  <1>1. WindowShape'
    BY DEF WindowInv, WindowShape, KaGoto, BinderStates, TimerStates, KeepaliveStates
  <1>2. Opening' /\ Future'
    BY DEF WindowInv, WindowShape, Opening, Future, KaGoto, Gens, BinderStates, TimerStates, KeepaliveStates
  <1>3. ExemptHasCloser'
    <2>1. \A h \in Gens : ka[h] \in {"shut_challenge", "shut_exempt"} => ka'[h] = ka[h]
      BY DEF WindowInv, WindowShape, KaGoto, BinderStates, TimerStates, KeepaliveStates
    <2>2. QED
      BY <2>1 DEF WindowInv, ExemptHasCloser
  <1>4. QED
    BY <1>1, <1>2, <1>3 DEF WindowInv

\* Steps that leave all of it alone.
LEMMA Elsewhere ==
    ASSUME WindowInv, UNCHANGED <<generation, exempt, stuck, bpc, bgen, timer, ka>>
    PROVE  WindowInv'
  BY DEF WindowInv, WindowShape, Opening, Future, ExemptHasCloser, BinderStates, TimerStates, KeepaliveStates

\* Steps that withdraw the exemption, or fail to and log it.
LEMMA Withdrawn ==
    ASSUME WindowInv, set_exempt(FALSE), UNCHANGED generation, timer' \in [Gens -> TimerStates],
           ka' \in [Gens -> KeepaliveStates], bpc' \in BinderStates,
           bpc' \in {"opening", "spawning"} => bpc' = bpc /\ bgen' = bgen,
           \A g \in Gens : ka[g] = "none" => ka'[g] = "none"
    PROVE  WindowInv'
  <1>0. MaxGen \in Nat
    BY WindowAssumption
  <1>1. WindowShape'
    BY DEF WindowInv, WindowShape, set_exempt
  <1>2. Opening'
    BY <1>0 DEF WindowInv, Opening, Gens
  <1>3. Future'
    BY DEF WindowInv, Future
  <1>4. ExemptHasCloser'
    <2>1. exempt' => stuck'
      BY DEF set_exempt, WindowInv, WindowShape
    <2>2. QED
      BY <2>1 DEF ExemptHasCloser
  <1>5. QED
    BY <1>1, <1>2, <1>3, <1>4 DEF WindowInv

\* The steps of the binder thread.
LEMMA BinderStep ==
    ASSUME WindowInv,
           \/ \E open \in BOOLEAN : AuthBegin(open)
           \/ AuthOpen \/ AuthSpawn \/ AuthClose \/ KeepUnlockedConfirm \/ DeathNotice \/ Boot
           \/ \E right \in BOOLEAN : KeepUnlocked(right)
    PROVE  WindowInv'
  <1>0. MaxGen \in Nat
    BY WindowAssumption
  <1>1. ASSUME NEW open \in BOOLEAN, AuthBegin(open) PROVE WindowInv'
    <2>1. generation \in 0 .. MaxGen - 1 /\ generation' = generation + 1
      BY <1>1, <1>0 DEF AuthBegin, WindowInv, WindowShape, BinderStates, TimerStates, KeepaliveStates
    <2>2. bpc' \in {"opening", "closing"}
      BY <1>1 DEF AuthBegin
    <2>3. WindowShape'
      BY <1>1, <2>1, <2>2, <1>0 DEF AuthBegin, property, WindowInv, WindowShape, BinderStates, TimerStates, KeepaliveStates
    <2>4. Opening' /\ Future'
      BY <1>1, <2>1, <1>0 DEF AuthBegin, WindowInv, Opening, Future, Gens
    <2>5. QED
      BY <2>2, <2>3, <2>4 DEF WindowInv, ExemptHasCloser
  <1>2. CASE AuthOpen
    <2>1. WindowShape' /\ Opening' /\ Future'
      BY <1>2 DEF AuthOpen, set_exempt, WindowInv, WindowShape, Opening, Future, BinderStates, TimerStates, KeepaliveStates
    <2>2. bpc' = "spawning"
      BY <1>2 DEF AuthOpen
    <2>3. QED
      BY <2>1, <2>2 DEF WindowInv, ExemptHasCloser
  <1>3. CASE AuthSpawn
    <2>1. generation \in Gens /\ bgen = generation
      BY <1>3, <1>0 DEF AuthSpawn, WindowInv, Opening, Gens
    <2>2. WindowShape' /\ timer'[generation] = "sleeping"
      BY <1>3, <2>1 DEF AuthSpawn, property, WindowInv, WindowShape, BinderStates, TimerStates, KeepaliveStates
    <2>3. Opening' /\ Future'
      BY <1>3, <2>1, <1>0 DEF AuthSpawn, property, WindowInv, WindowShape, Opening, Future, Gens, BinderStates, TimerStates, KeepaliveStates
    <2>4. generation' = generation
      BY <1>3 DEF AuthSpawn
    <2>5. QED
      BY <2>1, <2>2, <2>3, <2>4 DEF WindowInv, ExemptHasCloser
  <1>4. CASE AuthClose \/ DeathNotice \/ Boot
    <2>1. /\ set_exempt(FALSE) /\ bpc' = "idle"
          /\ UNCHANGED <<generation, timer, ka>>
      BY <1>4 DEF AuthClose, DeathNotice, Boot, binder, property
    <2>2. /\ timer' \in [Gens -> TimerStates] /\ ka' \in [Gens -> KeepaliveStates]
          /\ bpc' \in BinderStates /\ bpc' \notin {"opening", "spawning"}
      BY <2>1 DEF WindowInv, WindowShape, BinderStates, TimerStates, KeepaliveStates
    <2>3. QED
      BY <2>1, <2>2, Withdrawn
  <1>5. CASE KeepUnlockedConfirm \/ \E right \in BOOLEAN : KeepUnlocked(right)
    <2>1. /\ UNCHANGED <<generation, exempt, stuck, bgen, timer, ka>>
          /\ bpc \in {"idle", "confirming"} /\ bpc' \in {"idle", "confirming"}
      BY <1>5 DEF KeepUnlockedConfirm, KeepUnlocked, property
    <2>2. QED
      BY <2>1 DEF WindowInv, WindowShape, Opening, Future, ExemptHasCloser, BinderStates, TimerStates, KeepaliveStates
  <1>6. QED
    BY <1>1, <1>2, <1>3, <1>4, <1>5

\* The steps of an expiry thread.
LEMMA TimerStep ==
    ASSUME WindowInv, NEW g \in Gens, Timer(g)
    PROVE  WindowInv'
  <1>1. CASE TimerCheck(g)
    <2>1. UNCHANGED <<generation, exempt, stuck, bpc, bgen, ka>>
      BY <1>1 DEF TimerCheck, binder, property
    <2>2. /\ timer' \in [Gens -> TimerStates]
          /\ \A h \in Gens : h # g => timer'[h] = timer[h]
          /\ timer[g] = "sleeping"
          /\ timer'[g] = IF generation = g THEN "expired" ELSE "none"
      BY <1>1 DEF TimerCheck, WindowInv, WindowShape, BinderStates, TimerStates, KeepaliveStates
    <2>3. WindowShape' /\ Opening' /\ Future'
      BY <2>1, <2>2 DEF WindowInv, WindowShape, Opening, Future, BinderStates, TimerStates, KeepaliveStates
    <2>4. ExemptHasCloser'
      <3>1. CASE generation = g
        BY <3>1, <2>1, <2>2 DEF ExemptHasCloser
      <3>2. CASE generation # g
        <4>1. \A h \in Gens : timer[h] = "expired" => timer'[h] = "expired"
          BY <2>2
        <4>2. generation \in Gens => timer'[generation] = timer[generation]
          BY <2>2, <3>2
        <4>3. QED
          BY <4>1, <4>2, <2>1 DEF WindowInv, ExemptHasCloser
      <3>3. QED
        BY <3>1, <3>2
    <2>5. QED
      BY <2>3, <2>4 DEF WindowInv
  <1>2. CASE TimerClear(g)
    <2>1. set_exempt(FALSE) /\ UNCHANGED <<generation, bgen, bpc, ka>>
      BY <1>2 DEF TimerClear, binder, property
    <2>2. timer' \in [Gens -> TimerStates] /\ ka' \in [Gens -> KeepaliveStates] /\ bpc' \in BinderStates
      BY <1>2, <2>1 DEF TimerClear, WindowInv, WindowShape, BinderStates, TimerStates, KeepaliveStates
    <2>3. QED
      BY <2>1, <2>2, Withdrawn
  <1>3. QED
    BY <1>1, <1>2 DEF Timer

\* The steps of a challenge thread, shut() included.
LEMMA KeepaliveStep ==
    ASSUME WindowInv, NEW g \in Gens, Keepalive(g)
    PROVE  WindowInv'
  <1>0. MaxGen \in Nat
    BY WindowAssumption
  <1>1. CASE \/ KaStart(g) \/ KaCheck(g) \/ KaReset(g) \/ KaPost(g)
             \/ KaWake(g) \/ KaLook(g) \/ KaStrike(g)
    <2>1. UNCHANGED <<generation, exempt, stuck, bpc, bgen, timer>>
      BY <1>1 DEF KaStart, KaCheck, KaReset, KaPost, KaWake, KaLook, KaStrike, binder, property
    <2>2. ka[g] # "none" /\ ka[g] \notin {"shut_challenge", "shut_exempt"}
      BY <1>1 DEF KaStart, KaCheck, KaReset, KaPost, KaWake, KaLook, KaStrike, BinderStates, TimerStates, KeepaliveStates
    <2>3. \E l \in KeepaliveStates : KaGoto(g, l)
      BY <1>1 DEF KaStart, KaCheck, KaReset, KaPost, KaWake, KaLook, KaStrike, BinderStates, TimerStates, KeepaliveStates
    <2>4. QED
      BY <2>1, <2>2, <2>3, KaMove
  <1>2. CASE ShutGeneration(g)
    <2>1. /\ UNCHANGED <<exempt, stuck, bpc, bgen, timer>>
          /\ ka[g] = "shut"
          /\ generation' = IF generation = g THEN g + 1 ELSE generation
      BY <1>2 DEF ShutGeneration, binder, property
    <2>2. /\ ka' \in [Gens -> KeepaliveStates]
          /\ ka'[g] = "shut_challenge"
          /\ \A h \in Gens : h # g => ka'[h] = ka[h]
      BY <1>2 DEF ShutGeneration, KaGoto, WindowInv, WindowShape, BinderStates, TimerStates, KeepaliveStates
    <2>3. g \in 1 .. MaxGen
      BY <2>1, <1>0 DEF WindowInv, Future, Gens
    <2>4. WindowShape' /\ Future'
      BY <2>1, <2>2, <2>3, <1>0 DEF WindowInv, WindowShape, Future, Gens, BinderStates, TimerStates, KeepaliveStates
    <2>5. Opening'
      <3>1. CASE bpc \in {"opening", "spawning"}
        <4>1. generation \in Gens /\ ka[generation] = "none" /\ bgen = generation
          BY <3>1, <1>0 DEF WindowInv, Opening, Gens
        <4>2. generation # g /\ generation' = generation
          BY <4>1, <2>1
        <4>3. QED
          BY <3>1, <4>1, <4>2, <2>1, <2>2 DEF WindowInv, Opening
      <3>2. QED
        BY <3>1, <2>1 DEF Opening
    <2>6. QED
      BY <2>2, <2>4, <2>5 DEF WindowInv, ExemptHasCloser
  <1>3. CASE ShutChallenge(g)
    <2>1. UNCHANGED <<generation, exempt, stuck, bpc, bgen, timer>> /\ ka[g] = "shut_challenge"
      BY <1>3 DEF ShutChallenge, binder, property
    <2>2. /\ ka' \in [Gens -> KeepaliveStates]
          /\ ka'[g] = "shut_exempt"
          /\ \A h \in Gens : h # g => ka'[h] = ka[h]
      BY <1>3 DEF ShutChallenge, KaGoto, WindowInv, WindowShape, BinderStates, TimerStates, KeepaliveStates
    <2>3. WindowShape' /\ Opening' /\ Future'
      BY <2>1, <2>2, <1>0 DEF WindowInv, WindowShape, Opening, Future, Gens, BinderStates, TimerStates, KeepaliveStates
    <2>4. QED
      BY <2>2, <2>3 DEF WindowInv, ExemptHasCloser
  <1>4. CASE ShutExempt(g)
    <2>1. set_exempt(FALSE) /\ UNCHANGED <<generation, bgen, bpc, timer>> /\ ka[g] = "shut_exempt"
      BY <1>4 DEF ShutExempt, binder, property
    <2>2. /\ timer' \in [Gens -> TimerStates] /\ ka' \in [Gens -> KeepaliveStates] /\ bpc' \in BinderStates
          /\ \A h \in Gens : ka[h] = "none" => ka'[h] = "none"
      BY <1>4, <2>1 DEF ShutExempt, KaGoto, WindowInv, WindowShape, BinderStates, TimerStates, KeepaliveStates
    <2>3. QED
      BY <2>1, <2>2, Withdrawn
  <1>5. QED
    BY <1>1, <1>2, <1>3, <1>4 DEF Keepalive

\* Every step preserves the invariant.
LEMMA WindowStep == WindowInv /\ [WindowNext]_windowVars => WindowInv'
  <1> SUFFICES ASSUME WindowInv, [WindowNext]_windowVars PROVE WindowInv'
    OBVIOUS
  <1>0. MaxGen \in Nat
    BY WindowAssumption
  <1>1. CASE \E g \in Gens : Timer(g) \/ Keepalive(g)
    BY <1>1, TimerStep, KeepaliveStep
  <1>2. CASE Crash
    <2>1. bpc' = "booting" /\ exempt' \in BOOLEAN /\ stuck' \in BOOLEAN /\ generation' = 0
      BY <1>2 DEF Crash, property, WindowInv, WindowShape, BinderStates, TimerStates, KeepaliveStates
    <2>2. timer' = [g \in Gens |-> "none"] /\ ka' = [g \in Gens |-> "none"]
      BY <1>2 DEF Crash
    <2>3. WindowShape' /\ Opening' /\ Future'
      BY <2>1, <2>2, <1>0 DEF WindowShape, Opening, Future, Gens, BinderStates, TimerStates, KeepaliveStates
    <2>4. QED
      BY <2>1, <2>3 DEF WindowInv, ExemptHasCloser
  <1>3. CASE Lapse \/ Unregister \/ \E c \in Clients : Register(c) \/ Die(c)
    <2>1. UNCHANGED <<generation, exempt, stuck, bpc, bgen, timer, ka>>
      BY <1>3 DEF Lapse, Register, Unregister, Die, binder, property
    <2>2. QED
      BY <2>1, Elsewhere
  <1>4. CASE UNCHANGED windowVars
    BY <1>4, Elsewhere DEF windowVars, property
  <1>5. QED
    BY <1>1, <1>2, <1>3, <1>4, BinderStep DEF WindowNext, Binder

\* Losing the exemption, never keeping it: whatever clients, timers, challenge
\* threads and crashes do, an exemption in force always has somebody already
\* committed to withdrawing it (setAuthenticated, start_keepalive, shut, main),
\* or the clear that should have ended it failed and was logged (set_exempt).
THEOREM ExemptionIsBounded == WindowSpec => []ExemptHasCloser
  <1>1. WindowInv => ExemptHasCloser
    BY DEF WindowInv
  <1>2. WindowInit => WindowInv
    BY WindowFirst
  <1>3. QED
    BY <1>1, <1>2, WindowStep, PTL DEF WindowSpec
=============================================================================
