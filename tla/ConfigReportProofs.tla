------------------------- MODULE ConfigReportProofs --------------------------
(***************************************************************************)
(* The watchdog's configuration and its alerts, for every environment and  *)
(* any number of days, runs and faults.                                    *)
(***************************************************************************)
EXTENDS ConfigReport, TLAPS

\* A number within a range that holds neither NotWhole nor a default out of it
\* is what its text says.
LEMMA ValueIsMeant ==
    ASSUME NEW text \in NumericText, NEW default, NEW range,
           NotWhole \notin range, ValueOr(default, text) \in range
    PROVE  NumberIsMeant(text, default, range, ValueOr(default, text))
<1>1. text.kind \in {"unset", "blank", "malformed", "number"}
  BY DEF NumericText
<1>2. text.kind = "malformed" => ValueOr(default, text) = NotWhole
  BY DEF ValueOr, Number
<1>3. text.kind = "number" => ValueOr(default, text) = text.n
  BY DEF ValueOr, Number
<1>4. text.kind = "blank" => ValueOr(default, text) = 0
  BY DEF ValueOr, Number
<1>5. text.kind = "unset" => ValueOr(default, text) = default
  BY DEF ValueOr
<1> QED
  BY <1>1, <1>2, <1>3, <1>4, <1>5 DEF NumberIsMeant

LEMMA AcceptedIsMeant ==
    ASSUME NEW e \in Environment, NEW dryRun \in BOOLEAN,
           ConfigErrors(e, dryRun) = {}
    PROVE  ConfigIsMeant(e, dryRun)
<1> DEFINE authority == e.EXPECTED_UPGRADE_AUTHORITY
           failures == ValueOr(DEFAULT_FAILURES_BEFORE_ALERT, e.RPC_FAILURES_BEFORE_ALERT)
           grace == ValueOr(DEFAULT_GRACE_HOURS, e.GRACE_HOURS)
<1>1. /\ AddressErrors("EXPECTED_UPGRADE_AUTHORITY", authority) = {}
      /\ e.CLUSTER # "malformed"
      /\ grace \in 0..MAX_GRACE_HOURS
      /\ FailuresInRange(failures)
      /\ dryRun \/ e.TELEGRAM
  BY DEF ConfigErrors
<1>2. authority \in {"none"} \cup Addresses
  BY <1>1 DEF AddressErrors, Environment
<1>3. authority \in Addresses <=> authority # "none"
  BY <1>2, AddressesAssumption
<1>4. /\ Config(e, dryRun).expectedAuthority =
           IF authority \in Addresses THEN authority ELSE None
      /\ Config(e, dryRun).cluster =
           IF e.CLUSTER = "unset" THEN "devnet" ELSE e.CLUSTER
      /\ Config(e, dryRun).graceSecs = grace * HOUR
      /\ Config(e, dryRun).failuresBeforeAlert = failures
  BY DEF Config
<1>5. NumberIsMeant(e.RPC_FAILURES_BEFORE_ALERT, 2, 1..6, failures)
  <2>1. failures \in 1..6 /\ DEFAULT_FAILURES_BEFORE_ALERT = 2
    BY <1>1 DEF FailuresInRange, MAX_FAILURES_BEFORE_ALERT, DEFAULT_FAILURES_BEFORE_ALERT
  <2>2. e.RPC_FAILURES_BEFORE_ALERT \in NumericText /\ NotWhole \notin 1..6
    BY DEF Environment, NotWhole
  <2> QED
    BY <2>1, <2>2, ValueIsMeant
<1>6. grace \in 0..168 /\ NumberIsMeant(e.GRACE_HOURS, 24, 0..168, grace)
  <2>1. grace \in 0..168 /\ DEFAULT_GRACE_HOURS = 24
    BY <1>1 DEF MAX_GRACE_HOURS, DEFAULT_GRACE_HOURS
  <2>2. e.GRACE_HOURS \in NumericText /\ NotWhole \notin 0..168
    BY DEF Environment, NotWhole
  <2> QED
    BY <2>1, <2>2, ValueIsMeant
<1>7. e.CLUSTER \in {"unset", "devnet", "mainnet"}
  BY <1>1 DEF Environment
<1> HIDE DEF authority, failures, grace
<1>8. Config(e, dryRun).expectedAuthority = None <=> authority = "none"
  BY <1>3, <1>4, AddressesAssumption
<1>9. Config(e, dryRun).expectedAuthority \in Addresses =>
        Config(e, dryRun).expectedAuthority = authority
  BY <1>4, AddressesAssumption
<1>10. /\ e.CLUSTER = "unset" => Config(e, dryRun).cluster = "devnet"
       /\ e.CLUSTER # "unset" =>
            Config(e, dryRun).cluster = e.CLUSTER /\ e.CLUSTER \in {"devnet", "mainnet"}
  BY <1>4, <1>7
<1> QED
  BY <1>1, <1>4, <1>5, <1>6, <1>8, <1>9, <1>10 DEF authority, ConfigIsMeant

\* The environment file holds an environment, whoever edited it.
EnvironmentOK == env \in Environment

LEMMA EnvironmentStep ==
    ASSUME EnvironmentOK, [ConfigNext]_configVars
    PROVE  EnvironmentOK'
BY EnvironmentAssumption
DEF EnvironmentOK, ConfigNext, StartInvalid, ReportStep, StaySilent, SendAlert, SendAlertFails,
    WriteMarker, LoseMarker, Edit, NextDay, configVars

\* No environment that passes parseConfig means something other than its author
\* wrote: no malformed authority turns into an expected immutable program, the
\* written cluster, grace and number of failures are the ones used, defaults
\* stand only for what is not set, and there is somewhere to send messages.
\* An empty grace is 0; an empty number of failures is not accepted.
THEOREM AcceptedMeansMeant == ConfigSpec => []AcceptedConfigIsMeant
<1>1. ConfigInit => EnvironmentOK
  BY EnvironmentAssumption DEF ConfigInit, EnvironmentOK
<1>2. EnvironmentOK /\ [ConfigNext]_configVars => EnvironmentOK'
  BY EnvironmentStep
<1>3. EnvironmentOK => AcceptedConfigIsMeant
  BY AcceptedIsMeant DEF EnvironmentOK, AcceptedConfigIsMeant
<1> QED
  BY <1>1, <1>2, <1>3, PTL DEF ConfigSpec

------------------------------------------------------------------------------

\* Except between sending and writing, the marker is that of the last alert,
\* unless its marker was lost.
MarkerInv == pc # "marker" => lastAlert \in {None, marker}

LEMMA MarkerStep ==
    ASSUME MarkerInv, [ConfigNext]_configVars
    PROVE  MarkerInv'
<1> USE DEF MarkerInv, Exit
<1>1. CASE StaySilent \/ SendAlert
  BY <1>1 DEF StaySilent, SendAlert
<1>2. CASE SendAlertFails
  BY <1>2 DEF SendAlertFails
<1>3. CASE WriteMarker \/ LoseMarker
  BY <1>3 DEF WriteMarker, LoseMarker
<1>4. ASSUME NEW dryRun \in BOOLEAN, StartInvalid(dryRun)
      PROVE  MarkerInv'
  BY <1>4 DEF StartInvalid
<1>5. CASE (\E e \in Edits : Edit(e)) \/ NextDay
  BY <1>5 DEF Edit, NextDay
<1>6. CASE UNCHANGED configVars
  BY <1>6 DEF configVars
<1> QED
  BY <1>1, <1>2, <1>3, <1>4, <1>5, <1>6 DEF ConfigNext, ReportStep

\* The same alert does not follow itself on one day unless its marker was lost:
\* configAlert compares the errors and the day with the marker, which is the
\* last alert's whatever happened to the environment and the runs since.
THEOREM NoRepeatedAlert == ConfigSpec => AlertNotRepeated
<1>1. ConfigInit => MarkerInv
  BY DEF ConfigInit, MarkerInv
<1>2. MarkerInv /\ [ConfigNext]_configVars => MarkerInv'
  BY MarkerStep
<1>3. MarkerInv => [SendAlert => lastAlert' # lastAlert]_configVars
  <2> SUFFICES ASSUME MarkerInv, SendAlert
               PROVE  lastAlert' # lastAlert
    OBVIOUS
  <2>1. /\ lastAlert' = ConfigAlert(errors, marker, today)
        /\ ConfigAlert(errors, marker, today) # None
        /\ pc = "alert"
    BY DEF SendAlert, Deliver
  <2>2. ConfigAlert(errors, marker, today) # marker
    BY <2>1 DEF ConfigAlert
  <2> QED
    BY <2>1, <2>2 DEF MarkerInv
<1> QED
  BY <1>1, <1>2, <1>3, PTL DEF ConfigSpec, AlertNotRepeated

==============================================================================
