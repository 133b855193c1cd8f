--------------------------- MODULE SdFunctionsV6 ----------------------------
(*****************************************************************************)
(* The functions that include/sd_api_v6 declares and the library implements, *)
(* with the type and the direction of each argument.                         *)
(*****************************************************************************)
EXTENDS SdTypesV6

sd_ble_gap_adv_set_configure ==
    Function("SD_BLE_GAP_ADV_SET_CONFIGURE",
             [p_adv_handle |-> InOut(Ptr(Uint8)), p_adv_data |-> In(Ptr(ble_gap_adv_data_t)),
              p_adv_params |-> In(Ptr(ble_gap_adv_params_t))])
sd_ble_gap_adv_start ==
    Function("SD_BLE_GAP_ADV_START", [adv_handle |-> In(Uint8), conn_cfg_tag |-> In(Uint8)])
sd_ble_gap_device_name_get ==
    Function("SD_BLE_GAP_DEVICE_NAME_GET",
             [p_dev_name |-> Out(Ptr(Uint8)), p_len |-> InOut(Ptr(Uint16))])
sd_ble_gap_appearance_get ==
    Function("SD_BLE_GAP_APPEARANCE_GET", [p_appearance |-> Out(Ptr(Uint16))])
sd_ble_gap_device_name_set ==
    Function("SD_BLE_GAP_DEVICE_NAME_SET",
             [p_write_perm |-> In(Ptr(ble_gap_conn_sec_mode_t)), p_dev_name |-> In(Ptr(Uint8)),
              len |-> In(Uint16)])
sd_ble_gap_appearance_set == Function("SD_BLE_GAP_APPEARANCE_SET", [appearance |-> In(Uint16)])
sd_ble_gap_ppcp_set ==
    Function("SD_BLE_GAP_PPCP_SET", [p_conn_params |-> In(Ptr(ble_gap_conn_params_t))])
sd_ble_gap_conn_param_update ==
    Function("SD_BLE_GAP_CONN_PARAM_UPDATE",
             [conn_handle |-> In(Uint16), p_conn_params |-> In(Ptr(ble_gap_conn_params_t))])
sd_ble_gap_disconnect ==
    Function("SD_BLE_GAP_DISCONNECT",
             [conn_handle |-> In(Uint16), hci_status_code |-> In(Uint8)])
sd_ble_gap_sec_info_reply ==
    Function("SD_BLE_GAP_SEC_INFO_REPLY",
             [conn_handle |-> In(Uint16), p_enc_info |-> In(Ptr(ble_gap_enc_info_t)),
              p_id_info |-> In(Ptr(ble_gap_irk_t)),
              p_sign_info |-> In(Ptr(ble_gap_sign_info_t))])
sd_ble_gap_ppcp_get ==
    Function("SD_BLE_GAP_PPCP_GET", [p_conn_params |-> Out(Ptr(ble_gap_conn_params_t))])
sd_ble_gap_addr_get == Function("SD_BLE_GAP_ADDR_GET", [p_addr |-> Out(Ptr(ble_gap_addr_t))])
sd_ble_gap_addr_set == Function("SD_BLE_GAP_ADDR_SET", [p_addr |-> In(Ptr(ble_gap_addr_t))])
sd_ble_gap_whitelist_set ==
    Function("SD_BLE_GAP_WHITELIST_SET",
             [pp_wl_addrs |-> In(Ptr(Ptr(ble_gap_addr_t))), len |-> In(Uint8)])
sd_ble_gap_device_identities_set ==
    Function("SD_BLE_GAP_DEVICE_IDENTITIES_SET",
             [pp_id_keys |-> In(Ptr(Ptr(ble_gap_id_key_t))),
              pp_local_irks |-> In(Ptr(Ptr(ble_gap_irk_t))), len |-> In(Uint8)])
sd_ble_gap_privacy_set ==
    Function("SD_BLE_GAP_PRIVACY_SET", [p_privacy_params |-> In(Ptr(ble_gap_privacy_params_t))])
sd_ble_gap_privacy_get ==
    Function("SD_BLE_GAP_PRIVACY_GET",
             [p_privacy_params |-> InOut(Ptr(ble_gap_privacy_params_t))])
sd_ble_gap_adv_stop == Function("SD_BLE_GAP_ADV_STOP", [adv_handle |-> In(Uint8)])
sd_ble_gap_auth_key_reply ==
    Function("SD_BLE_GAP_AUTH_KEY_REPLY",
             [conn_handle |-> In(Uint16), key_type |-> In(Uint8), p_key |-> In(Ptr(Uint8))])
sd_ble_gap_authenticate ==
    Function("SD_BLE_GAP_AUTHENTICATE",
             [conn_handle |-> In(Uint16), p_sec_params |-> In(Ptr(ble_gap_sec_params_t))])
sd_ble_gap_conn_sec_get ==
    Function("SD_BLE_GAP_CONN_SEC_GET",
             [conn_handle |-> In(Uint16), p_conn_sec |-> Out(Ptr(ble_gap_conn_sec_t))])
sd_ble_gap_rssi_start ==
    Function("SD_BLE_GAP_RSSI_START",
             [conn_handle |-> In(Uint16), threshold_dbm |-> In(Uint8),
              skip_count |-> In(Uint8)])
sd_ble_gap_rssi_stop == Function("SD_BLE_GAP_RSSI_STOP", [conn_handle |-> In(Uint16)])
sd_ble_gap_tx_power_set ==
    Function("SD_BLE_GAP_TX_POWER_SET",
             [role |-> In(Uint8), handle |-> In(Uint16), tx_power |-> In(Uint8)])
sd_ble_gap_scan_stop == Function("SD_BLE_GAP_SCAN_STOP", <<>>)
sd_ble_gap_connect ==
    Function("SD_BLE_GAP_CONNECT",
             [p_peer_addr |-> In(Ptr(ble_gap_addr_t)),
              p_scan_params |-> In(Ptr(ble_gap_scan_params_t)),
              p_conn_params |-> In(Ptr(ble_gap_conn_params_t)), conn_cfg_tag |-> In(Uint8)])
sd_ble_gap_connect_cancel == Function("SD_BLE_GAP_CONNECT_CANCEL", <<>>)
sd_ble_gap_scan_start ==
    Function("SD_BLE_GAP_SCAN_START",
             [p_scan_params |-> In(Ptr(ble_gap_scan_params_t)),
              p_adv_report_buffer |-> In(Ptr(ble_data_t))])
sd_ble_gap_encrypt ==
    Function("SD_BLE_GAP_ENCRYPT",
             [conn_handle |-> In(Uint16), p_master_id |-> In(Ptr(ble_gap_master_id_t)),
              p_enc_info |-> In(Ptr(ble_gap_enc_info_t))])
sd_ble_gap_rssi_get ==
    Function("SD_BLE_GAP_RSSI_GET",
             [conn_handle |-> In(Uint16), p_rssi |-> Out(Ptr(Uint8)),
              p_ch_index |-> Out(Ptr(Uint8))])
sd_ble_gap_sec_params_reply ==
    Function("SD_BLE_GAP_SEC_PARAMS_REPLY",
             [conn_handle |-> In(Uint16), sec_status |-> In(Uint8),
              p_sec_params |-> In(Ptr(ble_gap_sec_params_t)),
              p_sec_keyset |-> InOut(Ptr(ble_gap_sec_keyset_t))])
sd_ble_gap_lesc_oob_data_get ==
    Function("SD_BLE_GAP_LESC_OOB_DATA_GET",
             [conn_handle |-> In(Uint16), p_pk_own |-> In(Ptr(ble_gap_lesc_p256_pk_t)),
              p_oobd_own |-> Out(Ptr(ble_gap_lesc_oob_data_t))])
sd_ble_gap_lesc_oob_data_set ==
    Function("SD_BLE_GAP_LESC_OOB_DATA_SET",
             [conn_handle |-> In(Uint16), p_oobd_own |-> In(Ptr(ble_gap_lesc_oob_data_t)),
              p_oobd_peer |-> In(Ptr(ble_gap_lesc_oob_data_t))])
sd_ble_gap_lesc_dhkey_reply ==
    Function("SD_BLE_GAP_LESC_DHKEY_REPLY",
             [conn_handle |-> In(Uint16), p_dhkey |-> In(Ptr(ble_gap_lesc_dhkey_t))])
sd_ble_gap_keypress_notify ==
    Function("SD_BLE_GAP_KEYPRESS_NOTIFY", [conn_handle |-> In(Uint16), kp_not |-> In(Uint8)])
sd_ble_gap_phy_update ==
    Function("SD_BLE_GAP_PHY_UPDATE",
             [conn_handle |-> In(Uint16), p_gap_phys |-> In(Ptr(ble_gap_phys_t))])
sd_ble_gap_data_length_update ==
    Function("SD_BLE_GAP_DATA_LENGTH_UPDATE",
             [conn_handle |-> In(Uint16), p_dl_params |-> In(Ptr(ble_gap_data_length_params_t)),
              p_dl_limitation |-> Out(Ptr(ble_gap_data_length_limitation_t))])
sd_ble_gattc_primary_services_discover ==
    Function("SD_BLE_GATTC_PRIMARY_SERVICES_DISCOVER",
             [conn_handle |-> In(Uint16), start_handle |-> In(Uint16),
              p_srvc_uuid |-> In(Ptr(ble_uuid_t))])
sd_ble_gattc_relationships_discover ==
    Function("SD_BLE_GATTC_RELATIONSHIPS_DISCOVER",
             [conn_handle |-> In(Uint16), p_handle_range |-> In(Ptr(ble_gattc_handle_range_t))])
sd_ble_gattc_characteristics_discover ==
    Function("SD_BLE_GATTC_CHARACTERISTICS_DISCOVER",
             [conn_handle |-> In(Uint16), p_handle_range |-> In(Ptr(ble_gattc_handle_range_t))])
sd_ble_gattc_descriptors_discover ==
    Function("SD_BLE_GATTC_DESCRIPTORS_DISCOVER",
             [conn_handle |-> In(Uint16), p_handle_range |-> In(Ptr(ble_gattc_handle_range_t))])
sd_ble_gattc_char_value_by_uuid_read ==
    Function("SD_BLE_GATTC_CHAR_VALUE_BY_UUID_READ",
             [conn_handle |-> In(Uint16), p_uuid |-> In(Ptr(ble_uuid_t)),
              p_handle_range |-> In(Ptr(ble_gattc_handle_range_t))])
sd_ble_gattc_read ==
    Function("SD_BLE_GATTC_READ",
             [conn_handle |-> In(Uint16), handle |-> In(Uint16), offset |-> In(Uint16)])
sd_ble_gattc_char_values_read ==
    Function("SD_BLE_GATTC_CHAR_VALUES_READ",
             [conn_handle |-> In(Uint16), p_handles |-> In(Ptr(Uint16)),
              handle_count |-> In(Uint16)])
sd_ble_gattc_write ==
    Function("SD_BLE_GATTC_WRITE",
             [conn_handle |-> In(Uint16), p_write_params |-> In(Ptr(ble_gattc_write_params_t))])
sd_ble_gattc_hv_confirm ==
    Function("SD_BLE_GATTC_HV_CONFIRM", [conn_handle |-> In(Uint16), handle |-> In(Uint16)])
sd_ble_gattc_attr_info_discover ==
    Function("SD_BLE_GATTC_ATTR_INFO_DISCOVER",
             [conn_handle |-> In(Uint16), p_handle_range |-> In(Ptr(ble_gattc_handle_range_t))])
sd_ble_gattc_exchange_mtu_request ==
    Function("SD_BLE_GATTC_EXCHANGE_MTU_REQUEST",
             [conn_handle |-> In(Uint16), client_rx_mtu |-> In(Uint16)])
sd_ble_gatts_service_add ==
    Function("SD_BLE_GATTS_SERVICE_ADD",
             [type |-> In(Uint8), p_uuid |-> In(Ptr(ble_uuid_t)),
              p_handle |-> Out(Ptr(Uint16))])
sd_ble_gatts_include_add ==
    Function("SD_BLE_GATTS_INCLUDE_ADD",
             [service_handle |-> In(Uint16), inc_srvc_handle |-> In(Uint16),
              p_include_handle |-> Out(Ptr(Uint16))])
sd_ble_gatts_characteristic_add ==
    Function("SD_BLE_GATTS_CHARACTERISTIC_ADD",
             [service_handle |-> In(Uint16), p_char_md |-> In(Ptr(ble_gatts_char_md_t)),
              p_attr_char_value |-> In(Ptr(ble_gatts_attr_t)),
              p_handles |-> Out(Ptr(ble_gatts_char_handles_t))])
sd_ble_gatts_descriptor_add ==
    Function("SD_BLE_GATTS_DESCRIPTOR_ADD",
             [char_handle |-> In(Uint16), p_attr |-> In(Ptr(ble_gatts_attr_t)),
              p_handle |-> Out(Ptr(Uint16))])
sd_ble_gatts_value_set ==
    Function("SD_BLE_GATTS_VALUE_SET",
             [conn_handle |-> In(Uint16), handle |-> In(Uint16),
              p_value |-> InOut(Ptr(ble_gatts_value_t))])
sd_ble_gatts_value_get ==
    Function("SD_BLE_GATTS_VALUE_GET",
             [conn_handle |-> In(Uint16), handle |-> In(Uint16),
              p_value |-> InOut(Ptr(ble_gatts_value_t))])
sd_ble_gatts_hvx ==
    Function("SD_BLE_GATTS_HVX",
             [conn_handle |-> In(Uint16), p_hvx_params |-> InOut(Ptr(ble_gatts_hvx_params_t))])
sd_ble_gatts_service_changed ==
    Function("SD_BLE_GATTS_SERVICE_CHANGED",
             [conn_handle |-> In(Uint16), start_handle |-> In(Uint16),
              end_handle |-> In(Uint16)])
sd_ble_gatts_rw_authorize_reply ==
    Function("SD_BLE_GATTS_RW_AUTHORIZE_REPLY",
             [conn_handle |-> In(Uint16),
              p_rw_authorize_reply_params |-> In(Ptr(ble_gatts_rw_authorize_reply_params_t))])
sd_ble_gatts_sys_attr_set ==
    Function("SD_BLE_GATTS_SYS_ATTR_SET",
             [conn_handle |-> In(Uint16), p_sys_attr_data |-> In(Ptr(Uint8)),
              len |-> In(Uint16), flags |-> In(Uint32)])
sd_ble_gatts_sys_attr_get ==
    Function("SD_BLE_GATTS_SYS_ATTR_GET",
             [conn_handle |-> In(Uint16), p_sys_attr_data |-> Out(Ptr(Uint8)),
              p_len |-> InOut(Ptr(Uint16)), flags |-> In(Uint32)])
sd_ble_gatts_initial_user_handle_get ==
    Function("SD_BLE_GATTS_INITIAL_USER_HANDLE_GET", [p_handle |-> Out(Ptr(Uint16))])
sd_ble_gatts_attr_get ==
    Function("SD_BLE_GATTS_ATTR_GET",
             [handle |-> In(Uint16), p_uuid |-> Out(Ptr(ble_uuid_t)),
              p_md |-> Out(Ptr(ble_gatts_attr_md_t))])
sd_ble_gatts_exchange_mtu_reply ==
    Function("SD_BLE_GATTS_EXCHANGE_MTU_REPLY",
             [conn_handle |-> In(Uint16), server_rx_mtu |-> In(Uint16)])
sd_ble_uuid_encode ==
    Function("SD_BLE_UUID_ENCODE",
             [p_uuid |-> In(Ptr(ble_uuid_t)), p_uuid_le_len |-> Out(Ptr(Uint8)),
              p_uuid_le |-> Out(Ptr(Uint8))])
sd_ble_uuid_vs_add ==
    Function("SD_BLE_UUID_VS_ADD",
             [p_vs_uuid |-> In(Ptr(ble_uuid128_t)), p_uuid_type |-> Out(Ptr(Uint8))])
sd_ble_uuid_decode ==
    Function("SD_BLE_UUID_DECODE",
             [uuid_le_len |-> In(Uint8), p_uuid_le |-> In(Ptr(Uint8)),
              p_uuid |-> Out(Ptr(ble_uuid_t))])
sd_ble_version_get == Function("SD_BLE_VERSION_GET", [p_version |-> Out(Ptr(ble_version_t))])
sd_ble_opt_get ==
    Function("SD_BLE_OPT_GET", [opt_id |-> In(Uint32), p_opt |-> Out(Ptr(ble_opt_t))])
sd_ble_opt_set ==
    Function("SD_BLE_OPT_SET", [opt_id |-> In(Uint32), p_opt |-> In(Ptr(ble_opt_t))])
sd_ble_cfg_set ==
    Function("SD_BLE_CFG_SET",
             [cfg_id |-> In(Uint32), p_cfg |-> In(Ptr(ble_cfg_t)), app_ram_base |-> In(Uint32)])
sd_ble_enable == Function("SD_BLE_ENABLE", [p_app_ram_base |-> InOut(Ptr(Uint32))])
sd_ble_user_mem_reply ==
    Function("SD_BLE_USER_MEM_REPLY",
             [conn_handle |-> In(Uint16), p_block |-> In(Ptr(ble_user_mem_block_t))])
=============================================================================
