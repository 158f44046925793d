SPECIFICATION FairSpec
CONSTANTS
    fetch = fetch
    book = book
    mail = mail
    approval = approval
    researcher = researcher
    mailer = mailer
    alice = alice
    bob = bob
    yes = yes
    no = no
    None = None
    Steps = {fetch, book, mail}
    Gates = {approval}
    Workers = {researcher, mailer}
    Actors = {alice, bob}
    OptionKeys = {yes, no}
    Prereqs <- MCPrereqs
    GatesOf <- MCGatesOf
    MaxAttempts <- MCMaxAttempts
    Handles <- MCHandles
    Owner <- MCOwner
    OptionsOf <- MCOptionsOf
    Keys <- ClaimKeys
    KeyOf <- ClaimKey
INVARIANTS
    TypeOK
    PrereqsFirst
    OwnerDecidedFirst
    AttemptEndsOnce
    LateAnswersHarmless
    BudgetSpentExactly
    AckTruthful
PROPERTIES
    FinalIsFinal
    NothingPickedAfterClose
    ImplementsLedger
    UnlockedIsSettled
CHECK_DEADLOCK FALSE
