SPECIFICATION Spec
CONSTANTS
    a1 = a1
    a2 = a2
    b1 = b1
    b2 = b2
    slow = slow
    healthy = healthy
    Fetches <- MCFetches
    Streams <- MCFills
    Services <- MCServices
    ServiceOf <- MCServiceOf
    Limits <- MCLimits
    MaxInflight = 2
    Retries = 1
    Expected = 2
    Slack = 1
    MaxBody = 4
    Workloads <- MCWorkloads
    Unused = Unused
    Name = Name
    Answers <- MCAnswers
    Stalled <- MCStalled
    NoAddr = NoAddr
    AllowPrivate = FALSE
\* Every call has ended.
CHECK_DEADLOCK FALSE
INVARIANT FillsWithinBudget
