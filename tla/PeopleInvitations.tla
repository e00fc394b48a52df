--------------------------- MODULE PeopleInvitations ---------------------------
(***************************************************************************)
(* Accounts, the people registered with the units, and the invitations     *)
(* that bring the two together (src/people, src/users, src/units).         *)
(*                                                                         *)
(* An account logs in; a person is an entry in the register that may or    *)
(* may not have an account; a unit has an owner, people responsible for it *)
(* and one of these who answers for its fees.  Managers assign people to   *)
(* units and send invitations, whose acceptance creates the account.       *)
(*                                                                         *)
(* Requests run in slots; each database statement that writes is a step    *)
(* and the process may stop before any of them.  A save writes the row as  *)
(* it was loaded, with the changes of the request.  Passwords, names,      *)
(* addresses and the CPF (a second key beside the e-mail) are left out.    *)
(***************************************************************************)
EXTENDS Integers, Sequences, FiniteSets

CONSTANTS
    Emails, Phones,  \* contacts
    Units,           \* units of one condominium
    None,            \* no contact
    Slots,           \* how many requests may overlap
    MaxAccounts, MaxPeople, MaxInvites,  \* rows ever created
    MaxRequests,     \* requests ever made
    MaxCrashes       \* requests cut short

VARIABLES
    accounts,   \* users: e-mail (None for the internal address) and phone
    people,     \* people: e-mail, phone, account (0 when there is none)
    units,      \* owner, financial responsible and reference WhatsApp of each unit
    links,      \* unit_responsible_people: pairs of unit and person
    invites,    \* invitations to units and to the condominium
    calls,      \* the request in each slot
    requests,   \* requests made so far
    crashed     \* requests cut short so far

peopleVars == <<accounts, people, units, links, invites, calls, requests, crashed>>

Account == [email : Emails \cup {None}, phone : Phones \cup {None}]
Person  == [email : Emails \cup {None}, phone : Phones \cup {None}, account : 0..MaxAccounts]
Unit    == [owner : 0..MaxPeople, financial : 0..MaxPeople, pending : Phones \cup {None}]
Invite  == [kind : {"unit", "condominium"}, email : Emails \cup {None}, phone : Phones \cup {None},
            person : 1..MaxPeople, unit : Units, owner : BOOLEAN, responsible : BOOLEAN,
            state : {"pending", "expired", "consumed", "removed"}]

Roles == {"owner", "responsible", "both"}
AsOwner(role) == role \in {"owner", "both"}
AsResponsible(role) == role \in {"responsible", "both"}

(***************************************************************************)
(* Queries.  Where several rows match, findOne returns any of them.        *)
(***************************************************************************)

First(rows) == IF rows = {} THEN {0} ELSE rows

AccountByEmail(e) == First({a \in DOMAIN accounts : e # None /\ accounts[a].email = e})
AccountByPhone(p) == First({a \in DOMAIN accounts : p # None /\ accounts[a].phone = p})
PersonByEmail(e)  == First({p \in DOMAIN people : e # None /\ people[p].email = e})
PersonByPhone(ph) == First({p \in DOMAIN people : ph # None /\ people[p].phone = ph})
PersonOf(a)       == First({p \in DOMAIN people : people[p].account = a})
LatestPersonOf(a) == {p \in PersonOf(a) : \A q \in PersonOf(a) : q <= p}

LinkedTo(u) == {p \in DOMAIN people : <<u, p>> \in links}

\* The unique keys of users and people.
AccountFits(a, row) ==
    \A b \in DOMAIN accounts \ {a} :
        /\ row.email # None => accounts[b].email # row.email
        /\ row.phone # None => accounts[b].phone # row.phone
PersonFits(p, row) ==
    \A q \in DOMAIN people \ {p} : row.email # None => people[q].email # row.email

(***************************************************************************)
(* Requests.  A call keeps the rows it loaded and the steps it still has   *)
(* to do.  When a unit is loaded with its owner and its links (`related`), *)
(* `owned` is the owner and `known` are the people linked at that time.    *)
(***************************************************************************)

NoPerson == [email |-> None, phone |-> None, account |-> 0]
NoUnit == [owner |-> 0, financial |-> 0, pending |-> None]
SomeUnit == CHOOSE u \in Units : TRUE

NoCall == [op |-> "none", todo |-> << >>, account |-> 0, person |-> 0, row |-> NoPerson,
           unit |-> SomeUnit, unitRow |-> NoUnit, related |-> FALSE, owned |-> 0, known |-> {},
           role |-> "owner", invite |-> 0, email |-> None, phone |-> None]

Idle(s) == calls[s] = NoCall
Counted == requests < MaxRequests /\ requests' = requests + 1
Begins(s, call) == Idle(s) /\ Counted /\ calls' = [calls EXCEPT ![s] = call]
Ends(s) == calls' = [calls EXCEPT ![s] = NoCall]
Does(s, step) == calls[s].todo # << >> /\ Head(calls[s].todo) = step

\* On to the next step, with the call changed to c.
Continues(s, c) ==
    calls' = [calls EXCEPT ![s] = IF Tail(c.todo) = << >> THEN NoCall ELSE [c EXCEPT !.todo = Tail(@)]]

\* The step is done when `fits`, and refused, ending the request, otherwise.
DoneOrRefused(s, fits, effect, rows, c) ==
    \/ fits /\ effect /\ Continues(s, c)
    \/ ~fits /\ UNCHANGED rows /\ Ends(s)

(***************************************************************************)
(* Steps that several requests share.                                      *)
(***************************************************************************)

\* UsersService.create
CreateAccount(s) ==
    LET c == calls[s]
        row == [email |-> c.email, phone |-> c.phone] IN
    /\ Does(s, "account") /\ Len(accounts) < MaxAccounts
    /\ DoneOrRefused(s, AccountFits(0, row), accounts' = Append(accounts, row), accounts,
                     [c EXCEPT !.row.account = Len(accounts) + 1])
    /\ UNCHANGED <<people, units, links, invites, requests, crashed>>

\* An e-mail or a phone the row lacks is filled in from the invitation.
Filled(row, c) == [row EXCEPT !.email = IF @ = None THEN c.email ELSE @,
                              !.phone = IF @ = None THEN c.phone ELSE @]

CreatePerson(s) ==
    LET c == calls[s] IN
    /\ Does(s, "new") /\ Len(people) < MaxPeople
    /\ DoneOrRefused(s, PersonFits(0, c.row), people' = Append(people, c.row), people,
                     [c EXCEPT !.person = Len(people) + 1, !.row = Filled(@, c)])
    /\ UNCHANGED <<accounts, units, links, invites, requests, crashed>>

SavePerson(s) ==
    LET c == calls[s] IN
    /\ Does(s, "person")
    /\ DoneOrRefused(s, PersonFits(c.person, c.row), people' = [people EXCEPT ![c.person] = c.row],
                     people, c)
    /\ UNCHANGED <<accounts, units, links, invites, requests, crashed>>

\* ensureResponsibleLink
LinkPerson(s) ==
    LET c == calls[s] IN
    /\ Does(s, "link")
    /\ links' = links \cup {<<c.unit, c.person>>}
    /\ Continues(s, c)
    /\ UNCHANGED <<accounts, people, units, invites, requests, crashed>>

\* A unit saved with the links it was loaded with: TypeORM clears unit_id of the links
\* that are not among these, which the column refuses.
Orphans(c) == IF c.related THEN LinkedTo(c.unit) \ c.known ELSE {}

\* The owner object it was loaded with wins over owner_person_id.
UnitWritten(c) == [c.unitRow EXCEPT !.owner = IF c.related /\ c.owned # 0 THEN c.owned ELSE @]

SaveUnit(s) ==
    LET c == calls[s] IN
    /\ Does(s, "unit")
    /\ DoneOrRefused(s, Orphans(c) = {}, units' = [units EXCEPT ![c.unit] = UnitWritten(c)], units, c)
    /\ UNCHANGED <<accounts, people, links, invites, requests, crashed>>

(***************************************************************************)
(* Accounts: AuthService.register, UsersService.updateProfile.             *)
(***************************************************************************)

Register(e, ph) ==
    /\ Len(accounts) < MaxAccounts
    /\ AccountFits(0, [email |-> e, phone |-> ph])
    /\ accounts' = Append(accounts, [email |-> e, phone |-> ph])
    /\ Counted
    /\ UNCHANGED <<people, units, links, invites, calls, crashed>>

\* syncPersonForMe: the person of the account takes its e-mail and phone; without one,
\* a person is made when the request names it.
PersonForMe(a, row, named) ==
    LET me == [email |-> row.email, phone |-> row.phone, account |-> a] IN
    {[NoCall EXCEPT !.op = "profile", !.account = a, !.person = p, !.row = me,
                    !.todo = IF p # 0 THEN <<"person">> ELSE <<"new">>] :
        p \in {q \in PersonOf(a) : (q # 0 \/ named) /\ \A r \in PersonOf(a) : r <= q}}

\* The account is saved before its person: a person that cannot take the e-mail makes
\* the request fail with the account changed.
UpdateProfile(s, a, e, ph, named) ==
    LET row == [email |-> e, phone |-> ph] IN
    /\ Idle(s) /\ AccountFits(a, row)
    /\ accounts' = [accounts EXCEPT ![a] = row]
    /\ IF PersonForMe(a, row, named) = {} THEN Counted /\ UNCHANGED calls
       ELSE \E c \in PersonForMe(a, row, named) : Begins(s, c)
    /\ UNCHANGED <<people, units, links, invites, crashed>>

(***************************************************************************)
(* PeopleService.assignToUnit                                              *)
(***************************************************************************)

\* applyRoleToUnit and clearDisplayNamesWhenLinkingPerson on the loaded unit.
WithRole(u, p, role) ==
    [units[u] EXCEPT !.owner = IF AsOwner(role) THEN p ELSE @, !.pending = None]

WithPhone(row, ph) == IF ph = None THEN row ELSE [row EXCEPT !.phone = ph]

Assigning(u, role, e, ph) ==
    [NoCall EXCEPT !.op = "assign", !.unit = u, !.role = role, !.email = e, !.phone = ph,
                   !.related = TRUE, !.owned = units[u].owner, !.known = LinkedTo(u)]

LinkSteps(role) == IF AsResponsible(role) THEN <<"link", "unit">> ELSE <<"unit">>

\* A person with the e-mail, or else the person of the account with the e-mail.
AssignPerson(s, u, role, e, ph) ==
    \E p \in DOMAIN people :
        /\ \/ p \in PersonByEmail(e)
           \/ 0 \in PersonByEmail(e) /\ \E a \in AccountByEmail(e) \ {0} : p \in PersonOf(a)
        /\ Begins(s, [Assigning(u, role, e, ph) EXCEPT
                        !.person = p, !.row = WithPhone(people[p], ph),
                        !.unitRow = WithRole(u, p, role), !.todo = <<"person">> \o LinkSteps(role)])

\* An account without a person gets one.
AssignAccount(s, u, role, e, ph) ==
    /\ 0 \in PersonByEmail(e) /\ Len(people) < MaxPeople
    /\ \E a \in AccountByEmail(e) \ {0} :
        /\ 0 \in PersonOf(a)
        /\ Begins(s, [Assigning(u, role, e, ph) EXCEPT
                        !.row = [email |-> accounts[a].email, phone |-> ph, account |-> a],
                        !.unitRow = WithRole(u, Len(people) + 1, role),
                        !.todo = <<"new">> \o LinkSteps(role)])

\* Nobody has the e-mail: a person is registered and invited; the unit stays as it is.
AssignStranger(s, u, role, e, ph) ==
    /\ 0 \in PersonByEmail(e) /\ 0 \in AccountByEmail(e)
    /\ Len(people) < MaxPeople /\ Len(invites) < MaxInvites
    /\ Begins(s, [Assigning(u, role, e, ph) EXCEPT
                    !.op = "unit", !.row = [email |-> e, phone |-> ph, account |-> 0],
                    !.todo = <<"new", "replace", "send">>])

AssignToUnit(s, u, role, e, ph) ==
    /\ \/ AssignPerson(s, u, role, e, ph)
       \/ AssignAccount(s, u, role, e, ph)
       \/ AssignStranger(s, u, role, e, ph)
    /\ UNCHANGED <<accounts, people, units, links, invites, crashed>>

(***************************************************************************)
(* Invitations.  A call of kind "unit" or "condominium" makes one of that  *)
(* kind.                                                                   *)
(***************************************************************************)

Open == {i \in DOMAIN invites : invites[i].state \in {"pending", "expired"}}

\* Invitations not accepted yet that the new one replaces.
Replaced(c) ==
    {i \in Open :
        /\ invites[i].kind = c.op
        /\ \/ c.op = "unit" /\ invites[i].unit = c.unit /\ invites[i].email = c.email
           \/ c.op = "condominium" /\ c.email # None /\ invites[i].email = c.email
           \/ c.op = "condominium" /\ c.phone # None /\ invites[i].phone = c.phone}

ReplaceInvites(s) ==
    LET c == calls[s] IN
    /\ Does(s, "replace")
    /\ invites' = [i \in DOMAIN invites |->
                    IF i \in Replaced(c) THEN [invites[i] EXCEPT !.state = "removed"] ELSE invites[i]]
    /\ Continues(s, c)
    /\ UNCHANGED <<accounts, people, units, links, requests, crashed>>

SendInvite(s) ==
    LET c == calls[s] IN
    /\ Does(s, "send") /\ Len(invites) < MaxInvites
    /\ invites' = Append(invites,
                    [kind |-> c.op, email |-> c.email,
                     phone |-> IF c.op = "unit" THEN None ELSE c.phone,
                     person |-> c.person, unit |-> c.unit,
                     owner |-> c.op = "unit" /\ AsOwner(c.role),
                     responsible |-> c.op = "condominium" \/ AsResponsible(c.role),
                     state |-> "pending"])
    /\ Continues(s, c)
    /\ UNCHANGED <<accounts, people, units, links, requests, crashed>>

\* Without a contact the reference WhatsApp of the unit is used.
InvitePhone(u, e, ph) == IF e = None /\ ph = None THEN units[u].pending ELSE ph

\* By e-mail, then by phone, then through the account with that e-mail or phone.
InvitedAccount(e, ph) ==
    IF 0 \notin AccountByEmail(e) THEN AccountByEmail(e) ELSE AccountByPhone(ph)
InvitedPerson(e, ph) ==
    IF 0 \notin PersonByEmail(e) THEN PersonByEmail(e)
    ELSE IF 0 \notin PersonByPhone(ph) THEN PersonByPhone(ph)
    ELSE IF InvitedAccount(e, ph) = {0} THEN {0}
    ELSE UNION {PersonOf(a) : a \in InvitedAccount(e, ph)}

Inviting(u, e, ph) ==
    [NoCall EXCEPT !.op = "condominium", !.unit = u, !.email = e, !.phone = ph]

CreateCondominiumInvitation(s, u, e, given) ==
    LET ph == InvitePhone(u, e, given) IN
    /\ e # None \/ ph # None
    /\ Len(invites) < MaxInvites
    /\ \/ \E p \in InvitedPerson(e, ph) \ {0} :
             Begins(s, [Inviting(u, e, ph) EXCEPT
                          !.person = p, !.row = Filled(people[p], Inviting(u, e, ph)),
                          !.todo = <<"person", "replace", "send">>])
       \/ \E a \in InvitedAccount(e, ph) \ {0} :
             /\ 0 \in InvitedPerson(e, ph) /\ Len(people) < MaxPeople
             /\ Begins(s, [Inviting(u, e, ph) EXCEPT
                          !.row = [email |-> accounts[a].email,
                                   phone |-> IF accounts[a].email = e THEN None ELSE accounts[a].phone,
                                   account |-> a],
                          !.todo = <<"new", "person", "replace", "send">>])
       \/ /\ 0 \in InvitedPerson(e, ph) /\ 0 \in InvitedAccount(e, ph) /\ Len(people) < MaxPeople
          /\ Begins(s, [Inviting(u, e, ph) EXCEPT
                          !.row = [email |-> e, phone |-> ph, account |-> 0],
                          !.todo = <<"new", "replace", "send">>])
    /\ UNCHANGED <<accounts, people, units, links, invites, crashed>>

DeleteCondominiumInvitation(i) ==
    /\ i \in Open /\ invites[i].kind = "condominium"
    /\ invites' = [invites EXCEPT ![i].state = "removed"]
    /\ Counted
    /\ UNCHANGED <<accounts, people, units, links, calls, crashed>>

\* Seven days pass.
Expire(i) ==
    /\ invites[i].state = "pending"
    /\ invites' = [invites EXCEPT ![i].state = "expired"]
    /\ UNCHANGED <<accounts, people, units, links, calls, requests, crashed>>

(***************************************************************************)
(* PeopleService.acceptInvite                                              *)
(***************************************************************************)

\* The unit loaded without its owner and links.
Accepting(i, ph) ==
    LET inv == invites[i]
        u == inv.unit IN
    [NoCall EXCEPT !.op = "accept", !.invite = i, !.unit = u, !.person = inv.person,
                   !.row = WithPhone(people[inv.person], ph), !.phone = ph, !.email = inv.email,
                   !.unitRow = [units[u] EXCEPT !.owner = IF inv.owner THEN inv.person ELSE @,
                                                !.pending = None]]

\* mutant: consumed before the person is linked
ConsumedFirst(i) == <<"account", "person", "consume", "unit", "link">>

JoinSteps(i) ==
    <<"account", "person", "unit">> \o (IF invites[i].responsible THEN <<"link">> ELSE << >>)
        \o <<"consume">>

\* The person has no account yet, and neither has the e-mail or the phone: the
\* acceptance creates one.
Join(s, i, ph) ==
    LET inv == invites[i] IN
    /\ people[inv.person].account = 0 /\ 0 \in AccountByPhone(ph)
    /\ Begins(s, [Accepting(i, ph) EXCEPT !.todo = JoinSteps(i),
                    !.row.email = IF inv.kind = "condominium" /\ inv.email # None THEN inv.email ELSE @])

\* The account exists: the person is attached to it when it has none.
Confirm(s, i, a, ph) ==
    LET inv == invites[i]
        loaded == people[inv.person]
        attached == [loaded EXCEPT !.account = a, !.email = IF @ = None THEN inv.email ELSE @]
        steps == <<"phone", "unit", "link", "person", "consume">>
        call == [Accepting(i, ph) EXCEPT !.account = a] IN
    \/ /\ loaded.account = 0
       /\ Begins(s, [call EXCEPT !.row = attached, !.todo = <<"person">> \o steps])
    \/ /\ loaded.account = a
       /\ Begins(s, [call EXCEPT !.row = loaded, !.todo = steps])

AcceptUnitInvitation(s, i, ph) ==
    /\ invites[i].kind = "unit" /\ invites[i].state = "pending"
    /\ 0 \in AccountByEmail(invites[i].email)
    /\ Join(s, i, ph)
    /\ UNCHANGED <<accounts, people, units, links, invites, crashed>>

AcceptCondominiumInvitation(s, i, ph) ==
    LET inv == invites[i] IN
    /\ inv.kind = "condominium" /\ inv.state = "pending"
    /\ \E a \in InvitedAccount(inv.email, inv.phone) :
        IF a = 0 THEN Join(s, i, ph) ELSE Confirm(s, i, a, ph)
    /\ UNCHANGED <<accounts, people, units, links, invites, crashed>>

\* assertOrSetPhoneForInviteAccept
ConfirmPhone(s) ==
    LET c == calls[s]
        row == [accounts[c.account] EXCEPT !.phone = c.phone]
        fits == IF accounts[c.account].phone = None THEN AccountFits(c.account, row)
                ELSE accounts[c.account].phone = c.phone IN
    /\ Does(s, "phone")
    /\ DoneOrRefused(s, fits, accounts' = [accounts EXCEPT ![c.account] = row], accounts,
                     [c EXCEPT !.row.phone = c.phone])
    /\ UNCHANGED <<people, units, links, invites, requests, crashed>>

Consume(s) ==
    LET c == calls[s] IN
    /\ Does(s, "consume")
    /\ invites' = [invites EXCEPT ![c.invite].state = "consumed"]
    /\ Continues(s, c)
    /\ UNCHANGED <<accounts, people, units, links, requests, crashed>>

(***************************************************************************)
(* Changes to the people of a unit.                                        *)
(***************************************************************************)

\* PeopleService.patchPersonPhoneForUnit: the account first, then the person.
PatchPersonPhone(s, u, p, ph) ==
    LET a == people[p].account IN
    /\ units[u].owner = p \/ p \in LinkedTo(u)
    /\ Begins(s, [NoCall EXCEPT !.op = "phone", !.account = a, !.person = p, !.phone = ph,
                    !.row = [people[p] EXCEPT !.phone = ph],
                    !.todo = IF a # 0 THEN <<"staff", "person">> ELSE <<"person">>])
    /\ UNCHANGED <<accounts, people, units, links, invites, crashed>>

\* UsersService.setPhoneForUserByStaff
SetPhoneByStaff(s) ==
    LET c == calls[s]
        row == [accounts[c.account] EXCEPT !.phone = c.phone] IN
    /\ Does(s, "staff")
    /\ DoneOrRefused(s, AccountFits(c.account, row), accounts' = [accounts EXCEPT ![c.account] = row],
                     accounts, c)
    /\ UNCHANGED <<people, units, links, invites, requests, crashed>>

\* UnitsService.update with financialResponsiblePersonId: one of the linked people.
SetFinancialResponsible(u, p) ==
    /\ p = 0 \/ p \in LinkedTo(u)
    /\ units' = [units EXCEPT ![u].financial = p]
    /\ Counted
    /\ UNCHANGED <<accounts, people, links, invites, calls, crashed>>

\* UnitsService.update with pendingWhatsappPhone
SetPendingPhone(u, ph) ==
    /\ ph = None \/ (units[u].owner = 0 /\ LinkedTo(u) = {})
    /\ units' = [units EXCEPT ![u].pending = ph]
    /\ Counted
    /\ UNCHANGED <<accounts, people, links, invites, calls, crashed>>

\* removeResponsiblePersonFromUnit (of p) and clearResponsibleFromUnit (p = 0): the
\* links go first, the column of the unit follows.
RemoveResponsible(s, u, p) ==
    /\ Idle(s)
    /\ p = 0 \/ p \in LinkedTo(u)
    /\ links' = {l \in links : l[1] # u \/ (p # 0 /\ l[2] # p)}
    /\ Begins(s, [NoCall EXCEPT !.op = "unlink", !.unit = u, !.person = p, !.todo = <<"forget">>])
    /\ UNCHANGED <<accounts, people, units, invites, crashed>>

Forget(s) ==
    LET c == calls[s]
        u == c.unit IN
    /\ Does(s, "forget")
    /\ units' = [units EXCEPT ![u].financial = IF c.person \in {0, @} THEN 0 ELSE @,
                              ![u].pending = IF c.person = 0 THEN None ELSE @]
    /\ Continues(s, c)
    /\ UNCHANGED <<accounts, people, links, invites, requests, crashed>>

(***************************************************************************)
(* The whole.                                                              *)
(***************************************************************************)

Crash(s) ==
    /\ ~Idle(s) /\ crashed < MaxCrashes
    /\ crashed' = crashed + 1
    /\ Ends(s)
    /\ UNCHANGED <<accounts, people, units, links, invites, requests>>

Init ==
    /\ accounts = << >> /\ people = << >> /\ invites = << >>
    /\ units = [u \in Units |-> NoUnit]
    /\ links = {}
    /\ calls = [s \in Slots |-> NoCall]
    /\ requests = 0 /\ crashed = 0

Requests(s) ==
    \/ \E a \in DOMAIN accounts, e \in Emails, ph \in Phones, named \in BOOLEAN :
          UpdateProfile(s, a, e, ph, named)
    \/ \E u \in Units, role \in Roles, e \in Emails, ph \in Phones \cup {None} :
          AssignToUnit(s, u, role, e, ph)
    \/ \E u \in Units, e \in Emails \cup {None}, ph \in Phones \cup {None} :
          CreateCondominiumInvitation(s, u, e, ph)
    \/ \E i \in DOMAIN invites, ph \in Phones : AcceptUnitInvitation(s, i, ph)
    \/ \E i \in DOMAIN invites, ph \in Phones : AcceptCondominiumInvitation(s, i, ph)
    \/ \E u \in Units, p \in DOMAIN people, ph \in Phones \cup {None} : PatchPersonPhone(s, u, p, ph)
    \/ \E u \in Units, p \in {0} \cup DOMAIN people : RemoveResponsible(s, u, p)

Steps(s) ==
    \/ CreateAccount(s) \/ CreatePerson(s) \/ SavePerson(s)
    \/ LinkPerson(s) \/ SaveUnit(s)
    \/ ReplaceInvites(s) \/ SendInvite(s)
    \/ ConfirmPhone(s) \/ Consume(s)
    \/ SetPhoneByStaff(s) \/ Forget(s)

Next ==
    \/ \E e \in Emails, ph \in Phones : Register(e, ph)
    \/ \E u \in Units, p \in {0} \cup DOMAIN people : SetFinancialResponsible(u, p)
    \/ \E u \in Units, ph \in Phones \cup {None} : SetPendingPhone(u, ph)
    \/ \E i \in DOMAIN invites : DeleteCondominiumInvitation(i)
    \/ \E i \in DOMAIN invites : Expire(i)
    \/ \E s \in Slots : Requests(s)
    \/ \E s \in Slots : Steps(s)
    \/ \E s \in Slots : Crash(s)

Spec == Init /\ [][Next]_peopleVars

(***************************************************************************)
(* Properties.                                                             *)
(***************************************************************************)

\* The rows are rows, and a link, an owner or an invitation names a person that exists.
PeopleTypeOK ==
    /\ \A a \in DOMAIN accounts : accounts[a] \in Account
    /\ \A p \in DOMAIN people : people[p] \in Person
    /\ units \in [Units -> Unit]
    /\ links \subseteq Units \X DOMAIN people
    /\ \A i \in DOMAIN invites : invites[i] \in Invite
    /\ \A u \in Units : {units[u].owner, units[u].financial} \subseteq {0} \cup DOMAIN people

\* An invitation is only consumed once its person has an account and the unit has the
\* person in the roles of the invitation, wherever earlier attempts stopped.
ConsumptionLinks ==
    \A i \in DOMAIN invites :
        LET inv == invites[i] IN
        (inv.state # "consumed" /\ invites'[i].state = "consumed") =>
            /\ people'[inv.person].account # 0
            /\ inv.responsible => <<inv.unit, inv.person>> \in links'
            /\ inv.owner => units'[inv.unit].owner = inv.person

ConsumedIsLinked == [][ConsumptionLinks]_peopleVars

\* The financial responsible is one of the responsible people of the unit
\* (unit.entity.ts), unless a request was cut short between the two tables.
FinancialIsResponsible ==
    ((\A s \in Slots : Idle(s)) /\ crashed = 0) =>
        \A u \in Units : units[u].financial # 0 => <<u, units[u].financial>> \in links

\* A contact has one invitation to the condominium that can still be accepted, even
\* when an attempt to replace it was cut short.
OneOpenInvite ==
    \A i, j \in Open :
        (i # j /\ invites[i].kind = "condominium" /\ invites[j].kind = "condominium") =>
            /\ invites[i].email # None => invites[i].email # invites[j].email
            /\ invites[i].phone # None => invites[i].phone # invites[j].phone

\* A person that has an account keeps it: no invitation moves it to another one.
AccountStays ==
    \A p \in DOMAIN people : people[p].account # 0 => people'[p].account = people[p].account

AccountKept == [][AccountStays]_peopleVars
=============================================================================
