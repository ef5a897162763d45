------------------------- MODULE ConfigRolloutProofs -------------------------
(***************************************************************************)
(* Proofs that the package cache never mixes two configurations, and that  *)
(* no Release is left with an old one, for any number of Releases, of      *)
(* Configs and of publications.                                            *)
(***************************************************************************)
EXTENDS ConfigRollout, TLAPS

LEMMA TypeInit == Init => TypeOK
<1> SUFFICES ASSUME Init PROVE TypeOK
  OBVIOUS
<1>1. configQueue \in BOOLEAN
  BY Zenon DEF Init
<1> QED
  BY <1>1, ContentsAssumption, BoundsAssumption DEF Init, TypeOK

LEMMA TypeStep == TypeOK /\ [Next]_vars => TypeOK'
<1> SUFFICES ASSUME TypeOK, [Next]_vars PROVE TypeOK'
  OBVIOUS
<1> USE ContentsAssumption, RevisionsAssumption, BoundsAssumption, NoneAssumption
<1> USE DEF bounds, configVars, workerVars
<1>1. ASSUME NEW c \in Contents, EditConfigs(c) PROVE TypeOK'
  BY <1>1 DEF EditConfigs, TypeOK
<1>2. CASE DeliverConfigs
  BY <1>2 DEF DeliverConfigs, TypeOK
<1>3. CASE HandleConfigEvent
  BY <1>3 DEF HandleConfigEvent, TypeOK
<1>4. CASE HandlePublished
  BY <1>4 DEF HandlePublished, TypeOK
<1>5. CASE ListConfigs
  BY <1>5 DEF ListConfigs, TypeOK
<1>6. CASE AddConfigs
  <2>1. configQueue' \in BOOLEAN
    BY <1>6, Zenon DEF AddConfigs, TypeOK
  <2>2. current' \in [version : Nat, content : Valid]
    BY <1>6 DEF AddConfigs, TypeOK
  <2>3. configPc' \in {"idle", "add", "publish"}
    BY <1>6 DEF AddConfigs
  <2> QED
    BY <1>6, <2>1, <2>2, <2>3 DEF AddConfigs, TypeOK
<1>7. CASE Publish
  BY <1>7 DEF Publish, TypeOK
<1>8. ASSUME NEW r \in Releases, StartPass(r) PROVE TypeOK'
  BY <1>8 DEF StartPass, TypeOK, Points
<1>9. CASE ReadSource
  BY <1>9 DEF ReadSource, Read, TypeOK, Points
<1>10. CASE Lookup
  BY <1>10 DEF Lookup, Entry, TypeOK, Points, Entries, Packages
<1>11. CASE LoadTimeout
  BY <1>11 DEF LoadTimeout, TypeOK, Points, Packages
<1>12. CASE LoadInterval
  BY <1>12 DEF LoadInterval, TypeOK, Points, Packages
<1>13. CASE Keep
  BY <1>13 DEF Keep, Entry, TypeOK, Points, Entries
<1>14. CASE ReadContext
  BY <1>14 DEF ReadContext, Read, TypeOK, Points
<1>15. CASE ReadDeploy
  BY <1>15 DEF ReadDeploy, Read, TypeOK, Points
<1>16. CASE EndPass
  BY <1>16 DEF EndPass, TypeOK, Points
<1>17. CASE Evict
  BY <1>17 DEF Evict, TypeOK
<1>18. CASE Crash
  <2>1. crashes' \in Nat
    BY <1>18 DEF Crash, TypeOK
  <2> QED
    BY <1>18, <2>1, Zenon DEF Crash, TypeOK
<1>19. CASE Boot
  <2>1. configQueue' \in BOOLEAN
    BY <1>19, Zenon DEF Boot
  <2> QED
    BY <1>19, <2>1 DEF Boot, TypeOK
<1>20. CASE UNCHANGED vars
  BY <1>20 DEF vars, TypeOK
<1> QED
  BY <1>1, <1>2, <1>3, <1>4, <1>5, <1>6, <1>7, <1>8, <1>9, <1>10, <1>11, <1>12, <1>13,
     <1>14, <1>15, <1>16, <1>17, <1>18, <1>19, <1>20 DEF Next

\* A process that is down has no pass under way.
LEMMA DownStep == IInv /\ [Next]_vars => DownInv'
<1> SUFFICES ASSUME IInv, [Next]_vars PROVE DownInv'
  OBVIOUS
<1> USE DEF IInv, DownInv, bounds, configVars, workerVars
<1>1. ASSUME NEW c \in Contents, EditConfigs(c) PROVE DownInv'
  BY <1>1 DEF EditConfigs
<1>2. CASE DeliverConfigs
  BY <1>2 DEF DeliverConfigs
<1>3. CASE HandleConfigEvent
  BY <1>3 DEF HandleConfigEvent
<1>4. CASE HandlePublished
  BY <1>4 DEF HandlePublished
<1>5. CASE ListConfigs
  BY <1>5 DEF ListConfigs
<1>6. CASE AddConfigs
  BY <1>6 DEF AddConfigs
<1>7. CASE Publish
  BY <1>7 DEF Publish
<1>8. ASSUME NEW r \in Releases, StartPass(r) PROVE DownInv'
  BY <1>8 DEF StartPass
<1>9. CASE ReadSource
  BY <1>9 DEF ReadSource, Read
<1>10. CASE Lookup
  BY <1>10 DEF Lookup
<1>11. CASE LoadTimeout
  BY <1>11 DEF LoadTimeout
<1>12. CASE LoadInterval
  BY <1>12 DEF LoadInterval
<1>13. CASE Keep
  BY <1>13 DEF Keep
<1>14. CASE ReadContext
  BY <1>14 DEF ReadContext, Read
<1>15. CASE ReadDeploy
  BY <1>15 DEF ReadDeploy, Read
<1>16. CASE EndPass
  BY <1>16 DEF EndPass
<1>17. CASE Evict
  BY <1>17 DEF Evict
<1>18. CASE Crash
  BY <1>18 DEF Crash
<1>19. CASE Boot
  BY <1>19 DEF Boot
<1>20. CASE UNCHANGED vars
  BY <1>20 DEF vars
<1> QED
  BY <1>1, <1>2, <1>3, <1>4, <1>5, <1>6, <1>7, <1>8, <1>9, <1>10,
     <1>11, <1>12, <1>13, <1>14, <1>15, <1>16, <1>17, <1>18, <1>19, <1>20 DEF Next

\* While a package loads, the versions it reads are in order, and none is above the
\* current one.
LEMMA LoadStep == IInv /\ [Next]_vars => LoadInv'
<1> SUFFICES ASSUME IInv, [Next]_vars PROVE LoadInv'
  OBVIOUS
<1> USE DEF IInv, DownInv, LoadInv, TypeOK, bounds, configVars, workerVars
<1>1. ASSUME NEW c \in Contents, EditConfigs(c) PROVE LoadInv'
  BY <1>1 DEF EditConfigs
<1>2. CASE DeliverConfigs
  BY <1>2 DEF DeliverConfigs
<1>3. CASE HandleConfigEvent
  BY <1>3 DEF HandleConfigEvent
<1>4. CASE HandlePublished
  BY <1>4 DEF HandlePublished
<1>5. CASE ListConfigs
  BY <1>5 DEF ListConfigs
<1>6. CASE AddConfigs
  <2>1. current.version \in Nat /\ key \in Nat
    OBVIOUS
  <2>2. current'.version \in Nat /\ current.version <= current'.version
    BY <1>6, <2>1 DEF AddConfigs
  <2>3. pc \in {"interval", "keep"} => package.timeout \in Nat /\ package.interval \in Nat
    BY DEF Packages
  <2>4. UNCHANGED <<pc, key, package>> /\ up'
    BY <1>6 DEF AddConfigs
  <2> QED
    BY <2>1, <2>2, <2>3, <2>4
<1>7. CASE Publish
  BY <1>7 DEF Publish
<1>8. ASSUME NEW r \in Releases, StartPass(r) PROVE LoadInv'
  BY <1>8 DEF StartPass
<1>9. CASE ReadSource
  BY <1>9 DEF ReadSource, Read
<1>10. CASE Lookup
  BY <1>10 DEF Lookup
<1>11. CASE LoadTimeout
  BY <1>11 DEF LoadTimeout, Packages
<1>12. CASE LoadInterval
  BY <1>12 DEF LoadInterval, Packages
<1>13. CASE Keep
  BY <1>13 DEF Keep
<1>14. CASE ReadContext
  BY <1>14 DEF ReadContext, Read
<1>15. CASE ReadDeploy
  BY <1>15 DEF ReadDeploy, Read
<1>16. CASE EndPass
  BY <1>16 DEF EndPass
<1>17. CASE Evict
  BY <1>17 DEF Evict
<1>18. CASE Crash
  BY <1>18 DEF Crash
<1>19. CASE Boot
  BY <1>19 DEF Boot
<1>20. CASE UNCHANGED vars
  BY <1>20 DEF vars
<1> QED
  BY <1>1, <1>2, <1>3, <1>4, <1>5, <1>6, <1>7, <1>8, <1>9, <1>10,
     <1>11, <1>12, <1>13, <1>14, <1>15, <1>16, <1>17, <1>18, <1>19, <1>20 DEF Next

\* A package is kept only when the versions it read are all the key.
LEMMA KeptStep == IInv /\ [Next]_vars => KeptAsKeyed'
<1> SUFFICES ASSUME IInv, [Next]_vars PROVE KeptAsKeyed'
  OBVIOUS
<1> USE DEF IInv, KeptAsKeyed, bounds, configVars, workerVars
<1>1. ASSUME NEW c \in Contents, EditConfigs(c) PROVE KeptAsKeyed'
  BY <1>1 DEF EditConfigs
<1>2. CASE DeliverConfigs
  BY <1>2 DEF DeliverConfigs
<1>3. CASE HandleConfigEvent
  BY <1>3 DEF HandleConfigEvent
<1>4. CASE HandlePublished
  BY <1>4 DEF HandlePublished
<1>5. CASE ListConfigs
  BY <1>5 DEF ListConfigs
<1>6. CASE AddConfigs
  BY <1>6 DEF AddConfigs
<1>7. CASE Publish
  BY <1>7 DEF Publish
<1>8. ASSUME NEW r \in Releases, StartPass(r) PROVE KeptAsKeyed'
  BY <1>8 DEF StartPass
<1>9. CASE ReadSource
  BY <1>9 DEF ReadSource, Read
<1>10. CASE Lookup
  BY <1>10 DEF Lookup
<1>11. CASE LoadTimeout
  BY <1>11 DEF LoadTimeout
<1>12. CASE LoadInterval
  BY <1>12 DEF LoadInterval
<1>13. CASE Keep
  BY <1>13 DEF Keep, Entry, LoadInv, TypeOK, Packages, Entries
<1>14. CASE ReadContext
  BY <1>14 DEF ReadContext, Read
<1>15. CASE ReadDeploy
  BY <1>15 DEF ReadDeploy, Read
<1>16. CASE EndPass
  BY <1>16 DEF EndPass
<1>17. CASE Evict
  BY <1>17 DEF Evict
<1>18. CASE Crash
  BY <1>18 DEF Crash
<1>19. CASE Boot
  BY <1>19 DEF Boot
<1>20. CASE UNCHANGED vars
  BY <1>20 DEF vars
<1> QED
  BY <1>1, <1>2, <1>3, <1>4, <1>5, <1>6, <1>7, <1>8, <1>9, <1>10,
     <1>11, <1>12, <1>13, <1>14, <1>15, <1>16, <1>17, <1>18, <1>19, <1>20 DEF Next

\* A pass that saw an older version has its Release in the queue again, or will have it
\* with the publication on its way.
LEMMA PassStep == IInv /\ [Next]_vars => PassInv'
<1> SUFFICES ASSUME IInv, [Next]_vars PROVE PassInv'
  OBVIOUS
<1> USE DEF IInv, PassInv, TypeOK, bounds, configVars, workerVars
<1>1. ASSUME NEW c \in Contents, EditConfigs(c) PROVE PassInv'
  BY <1>1 DEF EditConfigs
<1>2. CASE DeliverConfigs
  BY <1>2 DEF DeliverConfigs
<1>3. CASE HandleConfigEvent
  BY <1>3 DEF HandleConfigEvent
<1>4. CASE HandlePublished
  BY <1>4 DEF HandlePublished
<1>5. CASE ListConfigs
  BY <1>5 DEF ListConfigs
<1>6. CASE AddConfigs
  BY <1>6 DEF AddConfigs
<1>7. CASE Publish
  BY <1>7 DEF Publish
<1>8. ASSUME NEW r \in Releases, StartPass(r) PROVE PassInv'
  BY <1>8 DEF StartPass
<1>9. CASE ReadSource
  BY <1>9 DEF ReadSource, Read
<1>10. CASE Lookup
  BY <1>10 DEF Lookup, Entry, KeptAsKeyed
<1>11. CASE LoadTimeout
  BY <1>11 DEF LoadTimeout
<1>12. CASE LoadInterval
  BY <1>12 DEF LoadInterval
<1>13. CASE Keep
  BY <1>13 DEF Keep
<1>14. CASE ReadContext
  BY <1>14 DEF ReadContext, Read
<1>15. CASE ReadDeploy
  BY <1>15 DEF ReadDeploy, Read
<1>16. CASE EndPass
  BY <1>16 DEF EndPass
<1>17. CASE Evict
  BY <1>17 DEF Evict
<1>18. CASE Crash
  BY <1>18 DEF Crash
<1>19. CASE Boot
  BY <1>19 DEF Boot, DownInv
<1>20. CASE UNCHANGED vars
  BY <1>20 DEF vars
<1> QED
  BY <1>1, <1>2, <1>3, <1>4, <1>5, <1>6, <1>7, <1>8, <1>9, <1>10,
     <1>11, <1>12, <1>13, <1>14, <1>15, <1>16, <1>17, <1>18, <1>19, <1>20 DEF Next

\* The same of a Release whose last pass saw an older version.
LEMMA LeftStep == IInv /\ [Next]_vars => NoReleaseLeftBehind'
<1> SUFFICES ASSUME IInv, [Next]_vars PROVE NoReleaseLeftBehind'
  OBVIOUS
<1> USE DEF IInv, PassInv, NoReleaseLeftBehind, TypeOK, bounds, configVars, workerVars
<1>1. ASSUME NEW c \in Contents, EditConfigs(c) PROVE NoReleaseLeftBehind'
  BY <1>1 DEF EditConfigs
<1>2. CASE DeliverConfigs
  BY <1>2 DEF DeliverConfigs
<1>3. CASE HandleConfigEvent
  BY <1>3 DEF HandleConfigEvent
<1>4. CASE HandlePublished
  BY <1>4 DEF HandlePublished
<1>5. CASE ListConfigs
  BY <1>5 DEF ListConfigs
<1>6. CASE AddConfigs
  BY <1>6 DEF AddConfigs
<1>7. CASE Publish
  BY <1>7 DEF Publish
<1>8. ASSUME NEW r \in Releases, StartPass(r) PROVE NoReleaseLeftBehind'
  <2>1. pc = "idle" /\ rel = None /\ r \in queue
    BY <1>8, NoneAssumption DEF StartPass, Points
  <2>2. \A q \in Releases \ (queue' \cup {rel'}) : q \in Releases \ (queue \cup {rel})
    BY <1>8, <2>1, NoneAssumption DEF StartPass
  <2> QED
    BY <1>8, <2>2 DEF StartPass
<1>9. CASE ReadSource
  BY <1>9 DEF ReadSource, Read
<1>10. CASE Lookup
  BY <1>10 DEF Lookup
<1>11. CASE LoadTimeout
  BY <1>11 DEF LoadTimeout
<1>12. CASE LoadInterval
  BY <1>12 DEF LoadInterval
<1>13. CASE Keep
  BY <1>13 DEF Keep
<1>14. CASE ReadContext
  BY <1>14 DEF ReadContext, Read
<1>15. CASE ReadDeploy
  BY <1>15 DEF ReadDeploy, Read
<1>16. CASE EndPass
  BY <1>16 DEF EndPass
<1>17. CASE Evict
  BY <1>17 DEF Evict
<1>18. CASE Crash
  BY <1>18 DEF Crash
<1>19. CASE Boot
  BY <1>19 DEF Boot
<1>20. CASE UNCHANGED vars
  BY <1>20 DEF vars
<1> QED
  BY <1>1, <1>2, <1>3, <1>4, <1>5, <1>6, <1>7, <1>8, <1>9, <1>10,
     <1>11, <1>12, <1>13, <1>14, <1>15, <1>16, <1>17, <1>18, <1>19, <1>20 DEF Next

\* A Config pass that listed old Configs has its request in the queue again.
LEMMA ConfigStep == IInv /\ [Next]_vars => ConfigInv'
<1> SUFFICES ASSUME IInv, [Next]_vars PROVE ConfigInv'
  OBVIOUS
<1> USE DEF IInv, DownInv, ConfigInv, TypeOK, bounds, configVars, workerVars
<1>1. ASSUME NEW c \in Contents, EditConfigs(c) PROVE ConfigInv'
  BY <1>1 DEF EditConfigs
<1>2. CASE DeliverConfigs
  BY <1>2 DEF DeliverConfigs
<1>3. CASE HandleConfigEvent
  BY <1>3 DEF HandleConfigEvent
<1>4. CASE HandlePublished
  BY <1>4 DEF HandlePublished
<1>5. CASE ListConfigs
  BY <1>5 DEF ListConfigs
<1>6. CASE AddConfigs
  BY <1>6 DEF AddConfigs
<1>7. CASE Publish
  BY <1>7 DEF Publish
<1>8. ASSUME NEW r \in Releases, StartPass(r) PROVE ConfigInv'
  BY <1>8 DEF StartPass
<1>9. CASE ReadSource
  BY <1>9 DEF ReadSource, Read
<1>10. CASE Lookup
  BY <1>10 DEF Lookup
<1>11. CASE LoadTimeout
  BY <1>11 DEF LoadTimeout
<1>12. CASE LoadInterval
  BY <1>12 DEF LoadInterval
<1>13. CASE Keep
  BY <1>13 DEF Keep
<1>14. CASE ReadContext
  BY <1>14 DEF ReadContext, Read
<1>15. CASE ReadDeploy
  BY <1>15 DEF ReadDeploy, Read
<1>16. CASE EndPass
  BY <1>16 DEF EndPass
<1>17. CASE Evict
  BY <1>17 DEF Evict
<1>18. CASE Crash
  BY <1>18 DEF Crash
<1>19. CASE Boot
  BY <1>19 DEF Boot
<1>20. CASE UNCHANGED vars
  BY <1>20 DEF vars
<1> QED
  BY <1>1, <1>2, <1>3, <1>4, <1>5, <1>6, <1>7, <1>8, <1>9, <1>10,
     <1>11, <1>12, <1>13, <1>14, <1>15, <1>16, <1>17, <1>18, <1>19, <1>20 DEF Next

LEMMA InvInit == Init => IInv
<1> SUFFICES ASSUME Init PROVE IInv
  OBVIOUS
<1>1. TypeOK
  BY TypeInit
<1>2. DownInv /\ LoadInv /\ KeptAsKeyed /\ PassInv /\ NoReleaseLeftBehind /\ ConfigInv
  BY DEF Init, DownInv, LoadInv, KeptAsKeyed, PassInv, NoReleaseLeftBehind, ConfigInv
<1> QED
  BY <1>1, <1>2 DEF IInv

LEMMA InvStep == IInv /\ [Next]_vars => IInv'
BY TypeStep, DownStep, LoadStep, KeptStep, PassStep, LeftStep, ConfigStep DEF IInv

LEMMA InvAlways == Spec => []IInv
BY InvInit, InvStep, PTL DEF Spec

\* Every variable keeps its type; in particular the published configuration is always
\* one that loads (AddConfigs leaves the previous one on error).
THEOREM TypeCorrect == Spec => []TypeOK
<1>1. IInv => TypeOK
  BY DEF IInv
<1> QED
  BY InvAlways, <1>1, PTL

\* The package cache never holds, under a version of the configuration, a package with
\* a default of another one (release_controller.go:336-367).
THEOREM CacheNeverMixes == Spec => []KeptAsKeyed
<1>1. IInv => KeptAsKeyed
  BY DEF IInv
<1> QED
  BY InvAlways, <1>1, PTL

\* With any number of Releases, no publication leaves one behind, though the channel
\* that announces them has one slot (config_controller.go:74-80).
THEOREM NobodyLeftBehind == Spec => []NoReleaseLeftBehind
<1>1. IInv => NoReleaseLeftBehind
  BY DEF IInv
<1> QED
  BY InvAlways, <1>1, PTL

\* A Config worker with nothing to do has published the Configs that the manager knows
\* (config_controller.go:63-82).
THEOREM ConfigsTakeEffect == Spec => []ConfigsInEffect
<1>1. IInv => ConfigsInEffect
  BY DEF IInv, ConfigInv, ConfigsInEffect
<1> QED
  BY InvAlways, <1>1, PTL
=============================================================================
