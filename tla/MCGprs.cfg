CONSTANTS
    Sn = {1, 2}
    GPRS_EVENT_MAX = 2
    GPRS_CMD_ATE0_MAX_NUM = 1
    GPRS_CMD_CGATT_MAX_NUM = 1
    GPRS_CMD_QIOPEN_MAX_NUM = 1
    GPRS_CMD_SEND_LEN_MAX_NUM = 0
    GPRS_SEND_DATA_COUNT_MAX = 1
    GPRS_CONNECT_TIMEOUT_COUNT = 0
    POWER_ON_STEPS = 2
    UINT8 = 1
    APP_EVENT_MAX = 1
    MaxOwed = 1
    MaxBacklog = 2
    Answers <- MCAnswers
SPECIFICATION Spec
INVARIANTS TypeOK StateKnown 
PROPERTIES ImplementsService
CHECK_DEADLOCK FALSE
