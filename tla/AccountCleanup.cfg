SPECIFICATION AccountSpec
CONSTANTS
    Accounts = {a1, a2}
    Mailboxes = {m1}
    NoMailbox = NoMailbox
    Invites = {v1}
    NoInvite = NoInvite
    AccountRequests = {q1, q2}
    NoAccount = NoAccount
    InviteMaxUses = 1
    InviteTTL = 1
    PendingTTL = 1
    ActionTTL = 1
    AccountTokens = 1
    AccountsEnd = 1
    MaxAsked = 5
PROPERTY CleanupSparesAccounts
CHECK_DEADLOCK FALSE
SYMMETRY Sym
