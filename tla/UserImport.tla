------------------------------- MODULE UserImport -------------------------------
(***************************************************************************)
(* How users come to be: imports of a file in two calls (a preview kept in   *)
(* memory under a token, then an apply that writes row by row and links the  *)
(* superiors in two passes), and the forms of an administrator.  Logins are  *)
(* of one organisation and are never renamed here.                           *)
(***************************************************************************)
EXTENDS Integers, FiniteSets, Sequences

CONSTANTS
    Logins,      \* user names
    Emails,
    Files,       \* what may be uploaded: sequences of rows
    Actors,      \* users who may import
    Tokens,      \* previews, each applied at most once
    Admins,      \* forms open at once
    MaxForms     \* bound: forms ever submitted

\* boss is a set of at most one login; numbers are positive, 0 where there is none.
RowFields == {"login", "email", "number", "chief", "boss"}
ASSUME FilesAssumption ==
    \A f \in Files :
        /\ f \in Seq({f[i] : i \in DOMAIN f})
        /\ \A i \in DOMAIN f :
             /\ DOMAIN f[i] = RowFields /\ f[i].login \in Logins /\ f[i].email \in Emails
             /\ f[i].number \in Nat /\ f[i].chief \in Nat
             /\ f[i].boss \subseteq Logins /\ \A b, c \in f[i].boss : b = c

ASSUME MaxFormsAssumption == MaxForms \in Nat

VARIABLES
    people,      \* the users, by login
    imports,     \* by token, the preview or what the apply has left to do
    forms,       \* by administrator, the form that has passed its check
    submitted,   \* how many forms were submitted
    oddities      \* what has happened that a lone import does not see

importVars == <<people, imports, forms, submitted, oddities>>

Nobody == [email |-> {}]
NoImport == [step |-> "none"]
Over(how) == [step |-> how]
NoForm == [login |-> {}]
Users == {p \in Logins : people[p] # Nobody}
Applying == {k \in Tokens : imports[k].step \in {"rows", "number", "byNumber", "byName"}}
LoginsOf(rows) == {rows[i].login : i \in DOMAIN rows}

\* Rows, and what is left to do of them, are listed by their place in the file, and
\* done in that order.
NextPlace(todo) == CHOOSE i \in DOMAIN todo : \A j \in DOMAIN todo : i <= j
Rest(todo) == [i \in DOMAIN todo \ {NextPlace(todo)} |-> todo[i]]

\* An import stores addresses as they are, the forms store them encrypted, each
\* time differently: the text a query compares is only ever that of an import.
StoredTexts == {e \in Emails : \E p \in Users : people[p].email = {e} /\ ~people[p].sealed}
AddressesKnown == {e \in Emails : \E p \in Users : people[p].email = {e}}

--------------------------------------------------------------------------------
\* validateImportRows: a login or address that an earlier row had is a duplicate.
ValidRows(f) ==
    {i \in DOMAIN f : \A j \in 1..(i - 1) : f[j].login # f[i].login /\ f[j].email # f[i].email}

ConflictsByEmail(r) ==                       \* mutant: only the address is looked up
    r.email \in StoredTexts
Conflicts(r) == r.login \in Users \/ r.email \in StoredTexts

ApplyableRows(f) == [i \in {i \in ValidRows(f) : ~Conflicts(f[i])} |-> f[i]]

\* The links of the rows, before anybody looks at who exists, go round.
GoesRound(rows) ==
    \E S \in (SUBSET LoginsOf(rows)) \ {{}} : \A p \in S : \E i, j \in DOMAIN rows :
        /\ rows[i].login = p /\ rows[j].login \in S \ {p}
        /\ rows[j].login \in rows[i].boss \/ (rows[i].chief # 0 /\ rows[i].chief = rows[j].number)

--------------------------------------------------------------------------------
ImportInit ==
    /\ people = [p \in Logins |-> Nobody]
    /\ imports = [k \in Tokens |-> NoImport]
    /\ forms = [a \in Admins |-> NoForm]
    /\ submitted = 0
    /\ oddities = {}

PreviewImport(k, a) ==
    /\ imports[k] = NoImport
    /\ \E f \in Files :
         imports' = [imports EXCEPT ![k] =
             [step |-> "preview", by |-> a, rows |-> ApplyableRows(f),
              todo |-> ApplyableRows(f), links |-> {}, seen |-> Users]]
    /\ UNCHANGED <<people, forms, submitted, oddities>>

\* The token is consumed before anything that may fail; without an owner's call
\* it expires after ten minutes.
BeginApply(k, a) ==
    /\ imports[k].step = "preview" /\ imports[k].by = a
    /\ imports' = [imports EXCEPT ![k].step = "rows"]
    /\ oddities' = oddities \union (IF Applying = {} THEN {} ELSE {"overlap"})
                          \union (IF GoesRound(imports[k].rows) THEN {"cyclicFile"} ELSE {})
    /\ UNCHANGED <<people, forms, submitted>>

ExpirePreview(k) ==
    /\ imports[k].step = "preview"
    /\ imports' = [imports EXCEPT ![k] = Over("expired")]
    /\ UNCHANGED <<people, forms, submitted, oddities>>

\* A row whose login or address was taken since is skipped and reported.
CreateRow(k) ==
    /\ imports[k].step = "rows" /\ DOMAIN imports[k].todo # {}
    /\ LET r == imports[k].rows[NextPlace(imports[k].todo)]
           left == [imports[k] EXCEPT !.todo = Rest(@)]
       IN  IF r.login \in Users \/ r.email \in StoredTexts
           THEN /\ imports' = [imports EXCEPT ![k] = left]
                /\ oddities' = oddities \union IF r.login \in imports[k].seen THEN {} ELSE {"taken"}
                /\ UNCHANGED people
           ELSE /\ people' = [people EXCEPT ![r.login] =
                       [email |-> {r.email}, sealed |-> FALSE, number |-> 0, boss |-> {}, from |-> {k}]]
                /\ imports' = [imports EXCEPT ![k] =
                       IF r.number = 0 THEN left ELSE [imports[k] EXCEPT !.step = "number"]]
                /\ UNCHANGED oddities
    /\ UNCHANGED <<forms, submitted>>

\* The employee number is a second statement; only rows that have one are linked
\* by number.
NumberRow(k) ==
    /\ imports[k].step = "number"
    /\ LET i == NextPlace(imports[k].todo)
           r == imports[k].rows[i]
       IN  /\ people' = [people EXCEPT ![r.login].number = r.number]
           /\ imports' = [imports EXCEPT ![k].step = "rows", ![k].todo = Rest(@),
                                       ![k].links = IF r.chief = 0 THEN @ ELSE @ \union {i}]
    /\ UNCHANGED <<forms, submitted, oddities>>

\* findManagersByNoEmpleado: one holder of each wanted number that has any.
ChiefsOf(k) ==
    LET rows == imports[k].rows
        held == {rows[i].chief : i \in imports[k].links} \intersect {people[q].number : q \in Users}
    IN  {c \in [held -> Users] : \A n \in held : people[c[n]].number = n}
LinksByNumber(k, c) ==
    LET rows == imports[k].rows
        known == {i \in imports[k].links :
                     rows[i].chief \in DOMAIN c /\ c[rows[i].chief] # rows[i].login}
    IN  [i \in known |-> c[rows[i].chief]]

\* The rows whose superior is named: both users are looked up by login, whoever
\* created them.
LinkedAmong(rows, known) ==
    [i \in {i \in DOMAIN rows : rows[i].login \in Users /\ rows[i].boss # {}
                                /\ rows[i].boss \subseteq known[i]}
        |-> CHOOSE b \in rows[i].boss : TRUE]
LinksByNameToSelf(rows) ==                   \* mutant: also to oneself
    LinkedAmong(rows, [i \in DOMAIN rows |-> Users])
LinksByNameOfCreated(rows) ==                \* mutant: only among the rows of the file
    LinkedAmong(rows, [i \in DOMAIN rows |-> LoginsOf(rows) \ {rows[i].login}])
LinksByName(rows) == LinkedAmong(rows, [i \in DOMAIN rows |-> Users \ {rows[i].login}])

\* Each pass of links reads all the users it needs and then writes one by one.
FindChiefs(k) ==
    /\ imports[k].step = "rows" /\ DOMAIN imports[k].todo = {}
    /\ \E c \in ChiefsOf(k) :
         imports' = [imports EXCEPT ![k].step = "byNumber", ![k].todo = LinksByNumber(k, c)]
    /\ UNCHANGED <<people, forms, submitted, oddities>>

FindBosses(k) ==
    /\ imports[k].step = "byNumber" /\ DOMAIN imports[k].todo = {}
    /\ imports' = [imports EXCEPT ![k].step = "byName", ![k].todo = LinksByName(imports[k].rows)]
    /\ UNCHANGED <<people, forms, submitted, oddities>>

WriteLink(k) ==
    /\ imports[k].step \in {"byNumber", "byName"} /\ DOMAIN imports[k].todo # {}
    /\ LET i == NextPlace(imports[k].todo)
       IN  people' = [people EXCEPT ![imports[k].rows[i].login].boss = {imports[k].todo[i]}]
    /\ imports' = [imports EXCEPT ![k].todo = Rest(@)]
    /\ UNCHANGED <<forms, submitted, oddities>>

FinishImport(k) ==
    /\ imports[k].step = "byName" /\ DOMAIN imports[k].todo = {}
    /\ imports' = [imports EXCEPT ![k].step = "done"]
    /\ UNCHANGED <<people, forms, submitted, oddities>>

\* A row or a link throws, the process stops, or the answer comes after the
\* transaction around the call timed out: what was written stays, as every
\* statement went through another connection.
FailImport(k) ==
    /\ k \in Applying
    /\ imports' = [imports EXCEPT ![k] = Over("failed")]
    /\ UNCHANGED <<people, forms, submitted, oddities>>

\* createUser and updateUserData with another address: all the addresses are read,
\* decrypted and compared, then the user is written.
CheckForm(a) ==
    /\ forms[a] = NoForm /\ submitted < MaxForms
    /\ submitted' = submitted + 1
    /\ \E p \in Logins, e \in Emails \ AddressesKnown :
         forms' = [forms EXCEPT ![a] = [login |-> {p}, email |-> e, new |-> p \notin Users]]
    /\ UNCHANGED <<people, imports, oddities>>

\* A new user whose login was taken is refused by the unique index.
WriteForm(a) ==
    /\ forms[a] # NoForm
    /\ LET f == forms[a]
           p == CHOOSE q \in f.login : TRUE
       IN  people' = IF ~f.new THEN [people EXCEPT ![p].email = {f.email}, ![p].sealed = TRUE]
                     ELSE IF p \in Users THEN people
                     ELSE [people EXCEPT ![p] = [email |-> {f.email}, sealed |-> TRUE,
                                                 number |-> 0, boss |-> {}, from |-> {}]]
    /\ forms' = [forms EXCEPT ![a] = NoForm]
    /\ UNCHANGED <<imports, submitted, oddities>>

ImportNext ==
    \/ \E k \in Tokens, a \in Actors : PreviewImport(k, a) \/ BeginApply(k, a)
    \/ \E k \in Tokens :
         \/ ExpirePreview(k) \/ CreateRow(k) \/ NumberRow(k) \/ FindChiefs(k)
         \/ FindBosses(k) \/ WriteLink(k) \/ FinishImport(k) \/ FailImport(k)
    \/ \E a \in Admins : CheckForm(a) \/ WriteForm(a)

ImportSpec == ImportInit /\ [][ImportNext]_importVars

--------------------------------------------------------------------------------
ImportTypeOK ==
    /\ \A p \in Users : /\ people[p].boss \subseteq Users /\ Cardinality(people[p].boss) <= 1
                        /\ people[p].from \subseteq Tokens /\ people[p].sealed \in BOOLEAN
    /\ \A k \in Applying : imports[k].by \in Actors
    /\ submitted \in 0..MaxForms

\* The chain of superiors, which decides who approves, never comes back to the user
\* it starts from: not even across several files, as long as no file goes round by
\* itself, no two imports overlap and no login is taken after a preview.
NobodyApprovesSelf ==
    oddities \intersect {"overlap", "taken", "cyclicFile"} = {} =>
        \A S \in (SUBSET Users) \ {{}} : \E p \in S : people[p].boss \intersect S = {}

\* An import that answers success has created every row of its preview that nobody
\* took, with its number and with the superior it names, if there is such a user.
DoneIsComplete ==
    "taken" \notin oddities => \A k \in Tokens : imports[k].step = "done" =>
        \A i \in DOMAIN imports[k].rows :
            LET r == imports[k].rows[i]
                known == imports[k].seen \union LoginsOf(imports[k].rows)
            IN  /\ people[r.login].from = {k} /\ people[r.login].number = r.number
                /\ r.boss # {} /\ r.boss \subseteq known \ {r.login} => people[r.login].boss = r.boss

\* Users that no import created keep out of its links: they are never given a
\* superior, unless their login was taken between a preview and its apply.
ImportsSpareOthers ==
    "taken" \notin oddities => \A p \in Users : people[p].from = {} => people[p].boss = {}
================================================================================
