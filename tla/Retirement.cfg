SPECIFICATION AdmissionSpec
CONSTANT Jobs <- GoodJobs
CHECK_DEADLOCK FALSE
PROPERTY RetirementOutranks
