------------------------------- MODULE MCRecords -------------------------------
(***************************************************************************)
(* Instances of the modules about the records around the entries, for TLC: *)
(* Tenancy, BranchSwitch, Boletos, Reconciliation, Attachments,            *)
(* Categories, Recurrences, NotificationList, Reports, Failures, Users,    *)
(* LockPeriods and ApprovalRules.                                          *)
(*                                                                         *)
(* They share no variable.  A behaviour runs one of them and leaves the    *)
(* others in their initial states, so that the state space is the sum of   *)
(* theirs.  They do share model values: those of Request and of Boleto are *)
(* interchangeable, whatever each component uses them for, and are         *)
(* permuted in all of them at once.  The branches of a user are not, as    *)
(* one of them is the headquarters.                                        *)
(***************************************************************************)
EXTENDS Tenancy, Integers, TLC

CONSTANTS
  Tab, UserBranch, Call, Headquarters,
  Entry, Branch, Boleto, Request, MaxAttempts,
  Payment, Batch, Matcher,
  File, Size, Quota, Deleter,
  Category,
  Recurrence, Run, Claim, MaxOccurrences, LastDay,
  Notification, Change,
  ReportedEntry, ReportedPayment, Account, Price, Amount, Initial, Day, First, Last, AgeLimits,
  FailingCall, Query, RateLimit, Minute, MaxTime,
  Member, MaxChanges,
  Window

VARIABLES
  loaded, active, cookie, call, files, moved,
  row, gateway, billing, crossed,
  paid, usable, batches, items, matching, importing, matched,
  entryLive, upload, objects, attachment, usedBytes, deleting, overlapped,
  state, parent, editing, raced,
  today, recurrence, occurrences, lastSequence, jobRun, displaced,
  stored, shown, open, stale, fetch, change, behind, deeds,
  currentDate, entry, payment, account, transfer, report, cache, request,
  now, hits, blockedUntil, pause, failing,
  branches, onboarded, userBranches, replacing, members, table, load, ticking, late, changes, wanted,
  periods, creating, view, filed, outdated, failed, loading, confirmed,
  rules, edit, written, formEdits, submit, made, lost

W == INSTANCE BranchSwitch WITH Branch <- UserBranch
G == INSTANCE Boletos
M == INSTANCE Reconciliation
A == INSTANCE Attachments WITH Limit <- Quota
H == INSTANCE Categories
R == INSTANCE Recurrences WITH Limit <- Claim
L == INSTANCE NotificationList
P == INSTANCE Reports WITH Entry <- ReportedEntry, Payment <- ReportedPayment, today <- currentDate
F == INSTANCE Failures WITH Call <- FailingCall, Limit <- RateLimit, call <- failing
U == INSTANCE Users WITH User <- Member, Branch <- UserBranch, Replacer <- Tab, change <- ticking
D == INSTANCE LockPeriods WITH Period <- Boleto, Creator <- Request, cache <- filed, stale <- outdated, fetch <- loading
Q == INSTANCE ApprovalRules WITH Rule <- Boleto, Editor <- Request, Level <- Size, editing <- formEdits

\* What a column holds that is NULL is no row, and no id.
ASSUME NoneAssumption == None \notin M!Item /\ None \notin Category /\ None \notin [name : Name, schema : Schema]
ASSUME RowsAssumption == None \notin D!Row /\ None \notin Q!Row
ASSUME SizeAssumption == Size \subseteq Nat /\ None \notin [size : Size, deleted : BOOLEAN]
ASSUME BoundsAssumption == MaxAttempts \in Nat \ {0} /\ MaxStarts \in Nat
ASSUME ClockAssumption == RateLimit \in Nat /\ Minute \in Nat /\ MaxTime \in Nat
ASSUME RecurrenceAssumption == R!IsFiniteSet(Recurrence) /\ MaxOccurrences \in Nat /\ LastDay \in Nat \ {0}
ASSUME PagesAssumption == None \notin Tab /\ None \notin U!ChangeState /\ MaxChanges \in Nat
ASSUME LedgerAssumption ==
  /\ R!IsFiniteSet(ReportedEntry) /\ R!IsFiniteSet(ReportedPayment) /\ R!IsFiniteSet(Account)
  /\ Price \subseteq Nat /\ Amount \subseteq Nat /\ Initial \in Int
  /\ Day \subseteq Int /\ First \in Day /\ Last \in Int /\ First <= Last
  /\ R!IsFiniteSet(AgeLimits) /\ AgeLimits \subseteq Int
  /\ None \notin [entry : ReportedEntry, date : Day, amount : Amount] /\ None \notin P!RequestState
ASSUME BranchAssumption == Headquarters \in UserBranch /\ W!NoBranch \notin UserBranch

VARIABLE focus   \* the component this behaviour runs

switchVars == <<loaded, active, cookie, call, files, moved>>
boletoVars == <<row, gateway, billing, crossed>>
reconciliationVars == <<paid, usable, batches, items, matching, importing, matched>>
attachmentVars == <<entryLive, upload, objects, attachment, usedBytes, deleting, overlapped>>
categoryVars == <<state, parent, editing, raced>>
recurrenceVars == <<today, recurrence, occurrences, lastSequence, jobRun, displaced>>
listVars == <<stored, shown, open, stale, fetch, change, behind, deeds>>
reportVars == <<currentDate, entry, payment, account, transfer, report, cache, request>>
failureVars == <<now, hits, blockedUntil, pause, failing>>
usersVars == <<branches, onboarded, userBranches, replacing, members, table, load, ticking, late, changes, wanted>>
periodsVars == <<periods, creating, view, filed, outdated, failed, loading, confirmed>>
rulesVars == <<rules, edit, written, formEdits, submit, made, lost>>

MCInit ==
  /\ Init /\ W!Init /\ G!Init /\ M!Init /\ A!Init /\ H!Init /\ R!Init /\ L!Init /\ P!Init /\ F!Init /\ U!UsersInit /\ D!Init /\ Q!Init
  /\ focus \in {"tenancy", "switch", "boletos", "reconciliation", "attachments", "categories", "recurrences", "list",
               "reports", "failures", "users", "periods", "rules"}
  /\ focus # "recurrences" => \A r \in Recurrence : recurrence[r].type = "PAYABLE"
  /\ focus # "reports" => report = "dre" /\ \A e \in ReportedEntry : entry[e] = CHOOSE r \in P!NewRow : TRUE

MCNext ==
  /\ \/ focus = "tenancy" /\ Next
     \/ focus # "tenancy" /\ UNCHANGED vars
  /\ \/ focus = "switch" /\ W!Next
     \/ focus # "switch" /\ UNCHANGED switchVars
  /\ \/ focus = "boletos" /\ G!Next
     \/ focus # "boletos" /\ UNCHANGED boletoVars
  /\ \/ focus = "reconciliation" /\ M!Next
     \/ focus # "reconciliation" /\ UNCHANGED reconciliationVars
  /\ \/ focus = "attachments" /\ A!Next
     \/ focus # "attachments" /\ UNCHANGED attachmentVars
  /\ \/ focus = "categories" /\ ~raced /\ H!Next   \* after a race NoCycleUnlessRaced says nothing
     \/ focus # "categories" /\ UNCHANGED categoryVars
  /\ \/ focus = "recurrences" /\ R!Next
     \/ focus # "recurrences" /\ UNCHANGED recurrenceVars
  /\ \/ focus = "list" /\ L!Next
     \/ focus # "list" /\ UNCHANGED listVars
  /\ \/ focus = "reports" /\ P!Next
     \/ focus # "reports" /\ UNCHANGED reportVars
  /\ \/ focus = "failures" /\ F!Next
     \/ focus # "failures" /\ UNCHANGED failureVars
  /\ \/ focus = "users" /\ U!UsersNext
     \/ focus # "users" /\ UNCHANGED usersVars
  /\ \/ focus = "periods" /\ D!Next
     \/ focus # "periods" /\ UNCHANGED periodsVars
  /\ \/ focus = "rules" /\ Q!Next
     \/ focus # "rules" /\ UNCHANGED rulesVars
  /\ UNCHANGED focus

allVars ==
  <<focus, vars, switchVars, boletoVars, reconciliationVars, attachmentVars, categoryVars, recurrenceVars, listVars,
    reportVars, failureVars, usersVars, periodsVars, rulesVars>>

MCSpec == MCInit /\ [][MCNext]_allVars

Interchangeable == Permutations(Request) \cup Permutations(Boleto)

\* Every row, request, cache entry and cookie holds a value of its type, whatever
\* component runs.
TypesOK ==
  CASE focus = "tenancy" -> TypeOK
    [] focus = "switch" -> W!TypeOK
    [] focus = "boletos" -> G!TypeOK
    [] focus = "reconciliation" -> M!TypeOK
    [] focus = "attachments" -> A!TypeOK
    [] focus = "categories" -> H!TypeOK
    [] focus = "recurrences" -> R!TypeOK
    [] focus = "list" -> L!TypeOK
    [] focus = "reports" -> P!TypeOK
    [] focus = "failures" -> F!TypeOK
    [] focus = "users" -> U!UsersTypeOK
    [] focus = "periods" -> D!TypeOK
    [] focus = "rules" -> Q!TypeOK

\* Onboarding and migration runs, overlapping and stopped anywhere, record no migration
\* as done that a tenant's schema lacks, and TenantGuard works in the stored schema.
TenantsStaySound == focus = "tenancy" => RecordedIsApplied /\ CachedSchemaIsStored

\* The browser shows a branch the data of that branch (ApiClient, BranchProvider), waits
\* out the block a 429 told it of, keeps what was ticked for a user (UsuariosView), shows the
\* periods it closed (LockPeriodForm, LockPeriodGuard) and creates a rule once
\* (ApprovalRulesManager), each save for what the module names; and what the API
\* confirmed of a period or a rule stays so.
ClientStaysSound ==
  /\ focus = "switch" => W!MisfiledOnlyAcrossTabs
  /\ focus = "failures" => F!WaitsOutTheBlock
  /\ focus = "users" => U!TicksAreKept
  /\ focus = "periods" => D!ClosedIsShown /\ D!OverlapsOnlyIfOvertaken
  /\ focus = "rules" => Q!ChangesAreKept /\ Q!CreatedOnceUnlessLost

\* A row that says CANCELED or PAID tells what became of the boleto it names
\* (BoletosService, unless the status was another boleto's).
RowTellsTheGateway == focus = "boletos" => G!RowTellsTheGateway

\* However many users match an item at once, one match is announced for it, with the
\* entry it holds (ReconciliationRepository.matchItem).
MatchAnnouncedOnce == focus = "reconciliation" => M!MatchAnnouncedOnce

\* A tenant is charged the bytes of its attachments, never more, and less only after
\* overlapping deletions (softDeleteAttachment).
ChargedForWhatIsAttached == focus = "attachments" => A!ChargedForWhatIsAttached

\* Categories form no cycle unless one update overtook another between its walk and its
\* write (ensureNoHierarchyCycle).
NoCycleUnlessRaced == focus = "categories" => H!NoCycleUnlessRaced

\* Overlapping, failing and repeated runs of the recurrence job make each occurrence once.
EachOccurrenceOnce == focus = "recurrences" => R!EachOccurrenceOnce

\* A settled list of notifications shows what the user did and the API confirmed
\* (useNotifications).
DeedsAreShown == focus = "list" => L!DeedsAreShown

\* Cash flow, DRE, balance sheet, aging and dashboard tell one story of the ledger.
ReportsAgree == focus = "reports" => P!ReportsAgree
===============================================================================
