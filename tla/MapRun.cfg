\* One run and two resumes; every process killed, every write failing at will.
SPECIFICATION FairSpec
CHECK_DEADLOCK FALSE
CONSTANTS
  fresh = fresh
  r1 = r1
  r2 = r2
  NoRun = NoRun
  Runs <- WithResumes
  Fresh <- OneFresh
  Faults = {"kill", "manifest", "launch", "rename", "diagnosis", "receipt", "reserve"}
INVARIANTS
  ZeroExitIsSealed
  
  
  TrustedMapIsVerified
PROPERTIES
  ResultIsKept
  ImplementsRunRecord
  AcceptedResumeCompletes
