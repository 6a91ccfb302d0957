--------------------------- MODULE ConstRegistry ---------------------------
(***************************************************************************)
(* js/common/const.js as a program: the browser runs its blocks one after  *)
(* the other, each extends a global container, collects the container's    *)
(* properties into a list of its own and installs lookups that close over  *)
(* that list.  Afterwards the pages look codes up: codes of rows the       *)
(* server sent (numbers), the value of a chosen <option> (a string), an    *)
(* empty field.                                                            *)
(***************************************************************************)
EXTENDS ConstTables, FiniteSets, SequencesExt

VARIABLES
    run,      \* how many blocks have been executed
    props,    \* props[t]: the properties of container t in creation order
    objects,  \* objects[i]: the list block i collected
    lookup,   \* lookup[t]: the block whose list t.getInstanceOf searches, 0 if none
    lister,   \* lister[t]: the block whose list t.values() returns, 0 if none
    shown     \* what the page last looked up

vars == <<run, props, objects, lookup, lister, shown>>

Types == {Script[i].type : i \in DOMAIN Script}
Null == [attr |-> "null", code |-> Undefined, of |-> "null"]
Instance(t, def) == [attr |-> def[1], code |-> def[2], of |-> t]
Function(t, name) == [attr |-> name, code |-> Undefined, of |-> "function"]
Nothing == [what |-> "nothing"]

(***************************************************************************)
(* JavaScript equality between the code of an object and what a page looks *)
(* for.  == converts a string to the number it spells and the empty string *)
(* to 0; === converts nothing.                                             *)
(***************************************************************************)
Number(n) == [kind |-> "number", n |-> n]
Text(n) == [kind |-> "string", n |-> n]
Blank == [kind |-> "string", n |-> 0]
LooselyEqual(code, probe) == code # Undefined /\ code = probe.n
StrictlyEqual(code, probe) == LooselyEqual(code, probe) /\ probe.kind = "number"

\* getInstanceOf: the first object of the list with that code, or null.
Find(list, probe, strict) ==
    LET Matches(o) == IF strict THEN StrictlyEqual(o.code, probe)
                                ELSE LooselyEqual(o.code, probe)
        found == {i \in DOMAIN list : Matches(list[i])}
    IN  IF found = {} THEN Null
        ELSE list[CHOOSE i \in found : \A j \in found : i <= j]

GetInstanceOf(t, probe) ==
    IF lookup[t] = 0 THEN Null
    ELSE Find(objects[lookup[t]], probe, Script[lookup[t]].strict)

Values(t) == IF lister[t] = 0 THEN <<>> ELSE objects[lister[t]]
-----------------------------------------------------------------------------
\* Assigning a property keeps its place when the container already has it.
Assign(list, p) ==
    LET at == {i \in DOMAIN list : list[i].attr = p.attr}
    IN  IF at = {} THEN Append(list, p)
        ELSE [list EXCEPT ![CHOOSE i \in at : TRUE] = p]

\* The for-in loop of GameType skips OTHERS and appends it after the others.
Collected(list, last) ==
    SelectSeq(list, LAMBDA p : p.attr # last) \o SelectSeq(list, LAMBDA p : p.attr = last)

\* The order of the assignments before the loop: html comes first where it is.
BeforeLoop(b) ==
    [i \in DOMAIN b.early |-> Function(b.type, b.early[i])]
        \o [i \in DOMAIN b.defs |-> Instance(b.type, b.defs[i])]

\* One block of the script: instances, loop, functions.
RunBlock ==
    /\ run < Len(Script)
    /\ LET b == Script[run + 1]
           made == [props EXCEPT ![b.type] = FoldLeft(Assign, @, BeforeLoop(b))]
           late == [i \in DOMAIN b.late |-> Function(b.type, b.late[i])]
       IN  /\ objects' = Append(objects, Collected(made[b.over], b.last))
           /\ props' = [made EXCEPT ![b.type] = FoldLeft(Assign, @, late)]
           /\ lookup' = [lookup EXCEPT ![b.type] =
                            IF "getInstanceOf" \in ToSet(b.late) THEN run + 1 ELSE @]
           /\ lister' = IF b.values = "none" THEN lister
                        ELSE [lister EXCEPT ![b.values] = run + 1]
    /\ run' = run + 1
    /\ UNCHANGED shown
-----------------------------------------------------------------------------
(***************************************************************************)
(* The server's side of the codes the pages decode: the Java enumerations. *)
(***************************************************************************)
ServerDocumentType == << <<"ID", 1>>, <<"HEADSHOT", 2>>, <<"UTILITIES_BILL", 4>>,
    <<"ADDRESS_PROOF", 8>>, <<"SUMSUB_KYC", 16>>, <<"DOCUMENT", 9999999>> >>
ServerDocumentStatusType == << <<"NO_RECORD", 0>>, <<"PENDING", 1>>, <<"APPROVED", 2>>,
    <<"ON_HOLD", 3>>, <<"CREATED", 5>>, <<"REJECTED", -1>>, <<"REMOVED", -2>> >>
ServerMoneyTransactionStatusType == << <<"NEW", 0>>, <<"PENDING_APPROVAL", 1>>,
    <<"REJECTED", -1>>, <<"CONFIRMED", 2>>, <<"CLOSE", -2>>, <<"ON_HOLD", 3>>,
    <<"PROCESSING", 4>>, <<"AWAITED", 5>>, <<"REVERTED", -3>> >>
ServerBankType == << <<"LOCAL_BANK", 0>>, <<"ONLINE_BANKING", 1>>, <<"CREDIT_CARD", 2>> >>
ServerPaymentType == << <<"NOT_FOUND", -1>>, <<"LOCAL_BANKING", 0>>,
    <<"ONLINE_BANKING", 1>>, <<"CREDIT_CARD", 2>> >>
ServerGameType == << <<"SLOT", 1>>, <<"CASINO", 2>>, <<"Sport", 4>>, <<"FH", 8>>, <<"CARD", 16>>,
    <<"ESport", 32>>, <<"LOTTERY", 64>>, <<"P2P", 128>>, <<"TABLE", 256>>, <<"OTHERS", 512>>,
    <<"ARCADE", 1024>>, <<"COCK_FIGHTING", 2048>>, <<"RAIN", 4096>>, <<"CRASH", 8192>> >>
ServerProviderStatusType == << <<"INACTIVE", -1>>, <<"MAINTENANCE", 0>>, <<"ACTIVE", 1>> >>
ServerVendorStatusType == << <<"INVISIBLE", -1>>, <<"MAINTENANCE", 0>>, <<"ACTIVE", 1>> >>
ServerPeriodType == << <<"INDEFINITE", 0>>, <<"DAILY", 1>>, <<"WEEKLY", 2>>, <<"MONTHLY", 3>> >>
ServerAccountStatusType == << <<"INACTIVED", 0>>, <<"ACTIVE", 1>>, <<"SUSPEND", 2>>,
    <<"LOCKED", 3>> >>

ServerEnum(t) ==
    CASE t = "DocumentType" -> ServerDocumentType
      [] t = "DocumentStatusType" -> ServerDocumentStatusType
      [] t = "MoneyTransactionStatusType" -> ServerMoneyTransactionStatusType
      [] t = "BankType" -> ServerBankType
      [] t = "PaymentType" -> ServerPaymentType
      [] t = "GameType" -> ServerGameType
      [] t = "ProviderStatusType" -> ServerProviderStatusType
      [] t = "VendorStatusType" -> ServerVendorStatusType
      [] t = "PeriodType" -> ServerPeriodType
      [] t = "AccountStatusType" -> ServerAccountStatusType
      [] OTHER -> <<>>
-----------------------------------------------------------------------------
Loaded == run = Len(Script)

\* Every instance the script declares for t.
Defs(t) == UNION {ToSet(Script[i].defs) : i \in {j \in DOMAIN Script : Script[j].type = t}}

Show(what, t, asked, got) ==
    /\ Loaded
    /\ shown = Nothing
    /\ shown' = [what |-> what, type |-> t, asked |-> asked, got |-> got]
    /\ UNCHANGED <<run, props, objects, lookup, lister>>

\* A row of the server carries the code of one of its enumeration's members.
ShowRow(t, def) == Show("row", t, def[1], GetInstanceOf(t, Number(def[2])))

\* The page looks up the code of one of its own instances, as a number (unique()) ...
LookUpCode(t, def) == Show("code", t, def, GetInstanceOf(t, Number(def[2])))

\* ... or as the value of the <option> that was chosen, which is a string.
LookUpChoice(t, def) == Show("choice", t, def, GetInstanceOf(t, Text(def[2])))

\* A field without a value.
LookUpBlank(t) == Show("blank", t, "", GetInstanceOf(t, Blank))

\* A page fills a <select> from values().
FillSelect(t) == Show("list", t, "", Values(t))

\* The province of a bank account is chosen: its cities become the options.
ChooseProvince(i) ==
    Show("cities", "WithdrawalProvinceCityData", WithdrawalProvinceCityData[i][1],
         WithdrawalProvinceCityData[i][2])

Init ==
    /\ run = 0
    /\ props = [t \in Types |-> <<>>]
    /\ objects = <<>>
    /\ lookup = [t \in Types |-> 0]
    /\ lister = [t \in Types |-> 0]
    /\ shown = Nothing

LookUp ==
    \E t \in Types :
        \/ \E def \in ToSet(ServerEnum(t)) : ShowRow(t, def)
        \/ \E def \in Defs(t) : def[2] # Undefined /\ (LookUpCode(t, def) \/ LookUpChoice(t, def))
        \/ LookUpBlank(t)
        \/ FillSelect(t)

PickProvince == \E i \in DOMAIN WithdrawalProvinceCityData : ChooseProvince(i)

\* The manager goes on to the next field, row or page.
Leave ==
    /\ shown # Nothing
    /\ shown' = Nothing
    /\ UNCHANGED <<run, props, objects, lookup, lister>>

Next == RunBlock \/ LookUp \/ PickProvince \/ Leave

Spec == Init /\ [][Next]_vars
-----------------------------------------------------------------------------
(***************************************************************************)
(* Where the script departs from its own pattern.  LandingPageType gives   *)
(* 19 to two instances and CallingCodeType 1 to two countries; PaymentType *)
(* assigns FREECHARGE twice, so code 89 is gone; the loop of               *)
(* AffiliateApplicationType enumerates AffiliateType.  html of three       *)
(* status types, and the functions of the first PeriodType block, exist    *)
(* when a loop runs and are collected as if they were instances; the last  *)
(* block installs its list as WebsiteCategoryType.values.                  *)
(***************************************************************************)
Shadowed == {<<"LandingPageType", <<"NOT_FOUND", 19>> >>, <<"CallingCodeType", <<"Canada", 1>> >>,
             <<"PaymentType", <<"FREECHARGE", 89>> >>}
                \cup {<<"AffiliateApplicationType", d>> : d \in Defs("AffiliateApplicationType")}
MixedLists == {"WebsiteStatusType", "ProviderStatusType", "VendorStatusType", "PeriodType",
               "AffiliateApplicationType", "WebsiteCategoryType"}

\* The server's enumerations that grew or were renumbered without the script.
Drifted == {"DocumentType", "DocumentStatusType", "BankType", "PaymentType"}

(***************************************************************************)
(* A lookup by code finds the instance that was declared with it, however  *)
(* the blocks before and after it extended the container; by the string of *)
(* an <option> it finds the same, or nothing where getInstanceOf compares  *)
(* with ===.                                                               *)
(***************************************************************************)
LookupsFindTheirInstance ==
    shown.what \in {"code", "choice"} /\ lookup[shown.type] # 0
        /\ <<shown.type, shown.asked>> \notin Shadowed =>
        \/ shown.got = Instance(shown.type, shown.asked)
        \/ shown.got = Null /\ shown.what = "choice" /\ Script[lookup[shown.type]].strict

(***************************************************************************)
(* A <select> filled from values() offers each instance of its type once   *)
(* and nothing else.                                                       *)
(***************************************************************************)
ListsOfferTheInstances ==
    shown.what = "list" /\ lister[shown.type] # 0 /\ shown.type \notin MixedLists =>
        /\ \A i \in DOMAIN shown.got : \E d \in Defs(shown.type) :
               shown.got[i] = Instance(shown.type, d)
        /\ Len(shown.got) = Cardinality({d[1] : d \in Defs(shown.type)})

(***************************************************************************)
(* A row of the server is shown as what the server means by its code, for  *)
(* every enumeration but the ones that drifted.                            *)
(***************************************************************************)
ServerCodesAreUnderstood ==
    shown.what = "row" /\ shown.type \notin Drifted => shown.got.attr = shown.asked

(***************************************************************************)
(* The cities offered for a province lie in it (the first two digits of a  *)
(* division code are the province's), and there is at least one.           *)
(***************************************************************************)
CitiesFollowTheProvince ==
    shown.what = "cities" =>
        /\ shown.got # {}
        /\ \A c \in shown.got : c \div 10000 = shown.asked \div 10000
=============================================================================
