------------------------ MODULE MCWorkspaceCommands ------------------------
(***************************************************************************)
(* Three users, two overlapping transactions, small menus of commands that *)
(* meet each other. User 1 is admin and, with user 2, owner.               *)
(***************************************************************************)
EXTENDS WorkspaceCommands

CONSTANTS a, b,        \* operation ids
          p, q,        \* bodies, questions, outcomes
          thread, component, repository, workspace,
          project,
          run            \* a CI run that succeeded

Command(kind, actor, target, op, payload, base) ==
    [kind |-> kind, actor |-> actor, target |-> target, op |-> op,
     payload |-> payload, base |-> base]

Create(u, op, x) == Command("document.create", u, 1, op, x, None)
Save(u, op, x, base) == Command("document.save", u, 1, op, x, base)
RestoreTo(u, op, r, base) == Command("document.restore", u, 1, op, r, base)
Change(u, op, to, base) == Command("ticket.status.change", u, 1, op, to, base)
Propose(u, op, x) == Command("decision.propose", u, thread, op, x, None)
Accept(u, op, x) == Command("decision.accept", u, 1, op, x, None)
Ticket(u, op, x) == Command("ticket.create", u, 1, op, x, None)
Set(u, v, op, to, old) == Command("project.member.set", u, v, op, to, old)
Remove(u, v, op, old) == Command("project.member.remove", u, v, op, None, old)
Join(u, v, op, i) == Command("channel.member.add", u, <<i, v>>, op, None, FALSE)
Leave(u, v, op) == Command("channel.member.remove", u, <<1, v>>, op, None, TRUE)
Open(u, op, users) == Command("channel.create", u, project, op, users, None)
Post(u, op, x, t) == Command("message.create", u, 1, op, x, t)
Start(u, m) == Command("thread.start", u, m, None, None, None)
Transfer(u, v, op) == Command("workspace.owner.transfer", u, workspace, op, v, <<1, 1>>)
TicketLink(u, op) == Command("ticket.component.link", u, 1, op, component, None)
TicketUnlink(u, op) == Command("ticket.component.unlink", u, 1, op, 1, None)
RepositoryLink(u, op) == Command("component.repository.link", u, component, op, repository, None)
RepositoryUnlink(u, op) == Command("component.repository.unlink", u, component, op, 1, None)

Grant(u, v, op, g, is) == Command("environment.authorization.grant", u, v, op, None,
                                  [generation |-> g, active |-> is])
Revoke(u, v, op, g) == Command("environment.authorization.revoke", u, v, op, None,
                               [generation |-> g, active |-> TRUE])
Deploy(u, op, x) == Command("deployment.record", u, run, op, x, None)

\* One menu per group of commands that share rows. The last save of the first and
\* the last change of the second meet the largest revision.
Meetings == {
    {Create(2, a, p), Save(2, a, q, 1), Save(3, a, p, 1), RestoreTo(2, b, 1, 2), Save(2, b, q, 3)},
    {Create(2, a, p), Create(2, a, q), Save(2, a, q, 1), Save(2, a, p, 1)},
    {Change(2, a, "in-progress", 1), Change(3, a, "open", 2), Change(2, b, "in-progress", 1),
     Change(3, b, "done", 1), Change(2, b, "canceled", 3)},
    {Propose(2, a, p), Accept(1, a, p), Accept(1, b, q), Ticket(2, a, p)},
    {Set(1, 2, a, "viewer", "contributor"), Set(1, 3, a, "decider", "contributor"),
     Create(2, a, p), Change(2, a, "done", 1), Accept(3, a, p)},
    {Transfer(1, 3, a), Transfer(2, 3, a), Transfer(1, 2, b), Set(1, 2, a, "viewer", "contributor")},
    {TicketLink(2, a), TicketLink(3, a), TicketUnlink(2, b), Change(3, a, "done", 1)},
    {RepositoryLink(1, a), RepositoryUnlink(1, b), RepositoryLink(2, a), Transfer(1, 3, a)},
    {Grant(1, 3, a, 0, FALSE), Revoke(2, 3, a, 1), Grant(2, 3, b, 1, TRUE), Grant(1, 3, b, 1, FALSE),
     Deploy(3, a, p)},
    {Grant(1, 2, a, 0, FALSE), Grant(2, 1, a, 0, FALSE), Revoke(1, 2, b, 1), Deploy(2, a, p),
     Deploy(1, a, q), Transfer(1, 3, a)},
    {Start(3, 1), Remove(1, 3, a, "contributor"), Set(1, 3, b, "viewer", "none"), Join(1, 3, a, 1),
     Post(3, a, p, 1)},
    {Start(2, 1), Start(3, 1), Post(2, a, p, 1), Post(2, a, q, 0), Leave(1, 2, a), Join(1, 2, b, 1)},
    {Open(1, a, <<1, 2>>), Join(1, 3, a, 2), Remove(1, 2, a, "contributor"),
     Post(2, a, p, 0), Start(2, 2)}}

\* An admin sets the role of a user with a smaller id, who hands the Workspace over.
MemberMeeting == {{Set(2, 1, a, "viewer", "contributor"), Transfer(1, 2, a)}}

\* A Component gets a Ticket and a Repository at the same time.
ComponentMeeting == {{TicketLink(2, a), RepositoryLink(1, a)}}

\* The first are orderly, so that no number of transactions could deadlock on them;
\* the other two are not.
ASSUME MeetingsOrderly ==
    /\ \A m \in Meetings : Orderly(m)
    /\ \A m \in MemberMeeting \cup ComponentMeeting : ~Orderly(m)
=============================================================================
