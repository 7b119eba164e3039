SPECIFICATION MCSpec
CONSTANTS
    Accounts = {a1, a2, a3}
    Mailboxes = {m1, m2}
    NoMailbox = NoMailbox
    Invites = {v1}
    NoInvite = NoInvite
    AccountRequests = {q1, q2}
    NoAccount = NoAccount
    InviteMaxUses = 1
    InviteTTL = 1
    PendingTTL = 1
    ActionTTL = 1
    AccountTokens = 2
    AccountsEnd = 1
    MaxAsked = 4
INVARIANTS AccountsSound AdminRemains
PROPERTY CleanupSparesConfirmed
CHECK_DEADLOCK FALSE
SYMMETRY Sym
