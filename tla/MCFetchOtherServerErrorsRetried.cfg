SPECIFICATION Spec
CONSTANTS
    f1 = f1
    f2 = f2
    here = here
    there = there
    Fetchers = {f1}
    Urls = {here, there}
    Target = here
    NoLocation = NoLocation
    BadLocation = BadLocation
    Answers <- MCAnswers
    Lookups <- MCLookups
    Slots = 1
    MaxAttempts = 2
    MaxRedirects = 1
INVARIANTS OtherServerErrorsRetried
